---- MODULE Spec2Model ----
(***************************************************************************)
(* A model of atticus: the control API (core.py), the per-device process   *)
(* supervisor (mockingbird_process.py) and the device engine               *)
(* (mockingbird.py).  Strings are sequences of one-character strings.      *)
(***************************************************************************)
EXTENDS Integers, Sequences, FiniteSets, TLC

VARIABLES
    mb_procs,   \* Atticus._mb_procs: the loaded devices, in insertion order
    call,       \* the control-API call that is blocked in Process.join()
    result      \* what the last control-API call that returned gave its caller

coreVars == <<mb_procs, call, result>>

\* One device engine (a Mockingbird with its BeakManager), its interface
\* workers and the clients connected to them.
VARIABLES
    config,                    \* the Config the Mockingbird was built from
    stop,                      \* Mockingbird._stop
    mb_vars,                   \* Mockingbird._mb_vars: name -> value
    requests,                  \* Mockingbird._requests: interface -> list
    default_responses,         \* Mockingbird._default_responses
    response_queue,            \* Mockingbird._response_queue (the heap)
    next_id,                   \* the id of the next MockingbirdRequest object
    register_requests_thread,  \* the registration stage
    request_thread,            \* the match stage, with the locals of _request
    respond_thread,            \* the respond stage, with the locals of its loop
    rr_q,                      \* BeakManager._rr_q
    rx_q,                      \* BeakManager._rx_q
    tx_q,                      \* BeakProcess.tx_q of each interface
    beak_procs,                \* the interface workers
    clients,                   \* the connections, by reply key
    now,                       \* time.time()
    handled                    \* the requests the match stage has taken, in order

\* A BuffersContainer of the interface helpers and what its caller has seen.
VARIABLES
    buffers,    \* BuffersContainer._buffers: key -> deque
    new_data,   \* BuffersContainer._new_data
    bc_ret,     \* the last call: what it was and what it returned or raised
    appended,   \* key -> the messages appended to its buffer since create
    popped      \* key -> the messages pop has returned since create

bcVars == <<buffers, new_data, bc_ret, appended, popped>>

\* The Beak inside each interface worker, at the grain of its threads.
VARIABLES
    beaks       \* interface -> the events and the threads of its TCPServerBeak

engineVars == <<config, stop, mb_vars, requests, default_responses, response_queue,
                next_id, register_requests_thread, request_thread, respond_thread,
                rr_q, rx_q, tx_q, beak_procs, clients, now, handled, beaks>>

mbVars == <<engineVars, bcVars>>

vars == <<coreVars, mbVars>>

(***************************************************************************)
(* Generic helpers.                                                        *)
(***************************************************************************)
Range(s) == {s[i] : i \in 1..Len(s)}

\* The characters \w matches, among those the model's strings are made of.
WordChars == {"a", "b", "c", "d", "e", "f", "g", "h", "i", "j", "k", "l", "m",
              "n", "o", "p", "q", "r", "s", "t", "u", "v", "w", "x", "y", "z",
              "U", "_", "0", "1", "2", "3", "4", "5", "6", "7", "8", "9"}

(***************************************************************************)
(* core.py: mockingbird names and configuration files.                     *)
(***************************************************************************)
\* re.match(r'^\w+$', mb_name): one or more word characters; "$" also
\* matches just before a newline that ends the string.
ValidName(mb_name) ==
    LET n == Len(mb_name)
        body == IF n > 0 /\ mb_name[n] = "\n" THEN SubSeq(mb_name, 1, n - 1)
                ELSE mb_name
    IN  /\ Len(body) >= 1
        /\ \A i \in 1..Len(body) : body[i] \in WordChars

\* The names the control API is called with: two valid ones, one with a
\* character outside \w, and the empty string.
NameInputs == { <<"t", "1">>, <<"t", "2">>, <<"t", "-">>, <<>> }

\* The files load() is called with, and what parse_file makes of each:
\* a Config, or the exception it raises.
FileInputs == {"simple_tcp.yaml", "missing.yaml", "bad_syntax.yaml", "bad_schema.yaml"}

parse_file(file) ==
    CASE file = "simple_tcp.yaml" -> [exc |-> "None", config |-> file]
      [] file = "missing.yaml"    -> [exc |-> "ConfigIOError", config |-> "None"]
      [] file = "bad_syntax.yaml" -> [exc |-> "InvalidConfig", config |-> "None"]
      [] OTHER                    -> [exc |-> "SchemaError", config |-> "None"]

(***************************************************************************)
(* mockingbird_process.py: MockingbirdProcess.                             *)
(* process is the multiprocessing.Process held in _process: "initial" is   *)
(* the never-started Process() of the constructor, "alive" a started       *)
(* worker, "exited" a worker that has terminated.                          *)
(***************************************************************************)
\* starts counts the Process objects _create_process has built for the
\* device; the count stops at MaxStarts.
MaxStarts == 2

MockingbirdProcess(cfg, mb_name) ==
    [name |-> mb_name, config |-> cfg, status |-> "STOPPED",
     stop_event |-> FALSE, process |-> "initial", starts |-> 0]

is_alive(p) == p.process = "alive"

\* self._process = self._create_process(); self._process.start()
create_process(p) ==
    [p EXCEPT !.process = "alive",
              !.starts = IF @ < MaxStarts THEN @ + 1 ELSE @]

\* start() that forgets to record the new status.
MockingbirdProcess_start_no_status(p) ==
    IF p.status = "RUNNING" THEN p
    ELSE create_process([p EXCEPT !.stop_event = FALSE])

MockingbirdProcess_start(p) ==
    IF p.status = "RUNNING" THEN p
    ELSE create_process([p EXCEPT !.stop_event = FALSE, !.status = "RUNNING"])

\* stop() up to the point where it blocks in self._process.join().
MockingbirdProcess_stop_signal(p) ==
    IF p.status = "STOPPED" THEN p
    ELSE [p EXCEPT !.stop_event = TRUE]

\* stop() that does not wait for the worker.
MockingbirdProcess_joined_no_wait(p) == TRUE

\* join() returns once the worker is not alive.
MockingbirdProcess_joined(p) == ~is_alive(p)

\* stop() after join() has returned.
MockingbirdProcess_stop_finish(p) == [p EXCEPT !.status = "STOPPED"]

(***************************************************************************)
(* core.py: Atticus.                                                       *)
(***************************************************************************)
Loaded == {mb_procs[i].name : i \in 1..Len(mb_procs)}

Index(procs, mb_name) == CHOOSE i \in 1..Len(procs) : procs[i].name = mb_name

Proc(mb_name) == mb_procs[Index(mb_procs, mb_name)]

NoCall == [op |-> "none", name |-> <<>>, rest |-> <<>>]

NoResult == [op |-> "none", arg |-> <<>>, exc |-> "None", value |-> <<>>]

Returned(op, arg, exc) == [op |-> op, arg |-> arg, exc |-> exc, value |-> <<>>]

\* load() without the check for a name that is already loaded: the
\* assignment replaces the device stored under that name.
Atticus_load_overwrite(mb_name, file) ==
    /\ call = NoCall
    /\ UNCHANGED call
    /\ IF ~ValidName(mb_name) THEN
            /\ result' = Returned("load", mb_name, "MockingbirdInvalidName")
            /\ UNCHANGED mb_procs
       ELSE IF parse_file(file).exc # "None" THEN
            /\ result' = Returned("load", mb_name, parse_file(file).exc)
            /\ UNCHANGED mb_procs
       ELSE
            /\ mb_procs' =
                    IF mb_name \in Loaded
                    THEN [mb_procs EXCEPT ![Index(mb_procs, mb_name)] =
                            MockingbirdProcess(parse_file(file).config, mb_name)]
                    ELSE Append(mb_procs,
                                MockingbirdProcess(parse_file(file).config, mb_name))
            /\ result' = Returned("load", mb_name, "None")

Atticus_load(mb_name, file) ==
    /\ call = NoCall
    /\ UNCHANGED call
    /\ IF ~ValidName(mb_name) THEN
            /\ result' = Returned("load", mb_name, "MockingbirdInvalidName")
            /\ UNCHANGED mb_procs
       ELSE IF mb_name \in Loaded THEN
            /\ result' = Returned("load", mb_name, "MockingbirdAlreadyLoaded")
            /\ UNCHANGED mb_procs
       ELSE IF parse_file(file).exc # "None" THEN
            /\ result' = Returned("load", mb_name, parse_file(file).exc)
            /\ UNCHANGED mb_procs
       ELSE
            /\ mb_procs' = Append(mb_procs,
                                  MockingbirdProcess(parse_file(file).config, mb_name))
            /\ result' = Returned("load", mb_name, "None")

\* unload() without the check for a running device.
Atticus_unload_running(mb_name) ==
    /\ call = NoCall
    /\ UNCHANGED call
    /\ IF mb_name \notin Loaded THEN
            /\ result' = Returned("unload", mb_name, "MockingbirdNotFound")
            /\ UNCHANGED mb_procs
       ELSE
            /\ mb_procs' = SelectSeq(mb_procs, LAMBDA p : p.name # mb_name)
            /\ result' = Returned("unload", mb_name, "None")

\* unload() that drops every stopped device instead of the named one.
Atticus_unload_all_stopped(mb_name) ==
    /\ call = NoCall
    /\ UNCHANGED call
    /\ IF mb_name \notin Loaded THEN
            /\ result' = Returned("unload", mb_name, "MockingbirdNotFound")
            /\ UNCHANGED mb_procs
       ELSE IF Proc(mb_name).status = "RUNNING" THEN
            /\ result' = Returned("unload", mb_name, "MockingbirdRunning")
            /\ UNCHANGED mb_procs
       ELSE
            /\ mb_procs' = SelectSeq(mb_procs, LAMBDA p : p.status = "RUNNING")
            /\ result' = Returned("unload", mb_name, "None")

Atticus_unload(mb_name) ==
    /\ call = NoCall
    /\ UNCHANGED call
    /\ IF mb_name \notin Loaded THEN
            /\ result' = Returned("unload", mb_name, "MockingbirdNotFound")
            /\ UNCHANGED mb_procs
       ELSE IF Proc(mb_name).status = "RUNNING" THEN
            /\ result' = Returned("unload", mb_name, "MockingbirdRunning")
            /\ UNCHANGED mb_procs
       ELSE
            /\ mb_procs' = SelectSeq(mb_procs, LAMBDA p : p.name # mb_name)
            /\ result' = Returned("unload", mb_name, "None")

\* start() without the check for a running device: process.start() then
\* returns at once and no error reaches the caller.
Atticus_start_unchecked(mb_name) ==
    /\ call = NoCall
    /\ UNCHANGED call
    /\ IF mb_name \notin Loaded THEN
            /\ result' = Returned("start", mb_name, "MockingbirdNotFound")
            /\ UNCHANGED mb_procs
       ELSE
            /\ mb_procs' = [mb_procs EXCEPT ![Index(mb_procs, mb_name)] =
                                MockingbirdProcess_start(@)]
            /\ result' = Returned("start", mb_name, "None")

Atticus_start(mb_name) ==
    /\ call = NoCall
    /\ UNCHANGED call
    /\ IF mb_name \notin Loaded THEN
            /\ result' = Returned("start", mb_name, "MockingbirdNotFound")
            /\ UNCHANGED mb_procs
       ELSE IF Proc(mb_name).status = "RUNNING" THEN
            /\ result' = Returned("start", mb_name, "MockingbirdRunning")
            /\ UNCHANGED mb_procs
       ELSE
            /\ mb_procs' = [mb_procs EXCEPT ![Index(mb_procs, mb_name)] =
                                MockingbirdProcess_start(@)]
            /\ result' = Returned("start", mb_name, "None")

\* stop() either raises, or signals the worker and blocks in join().
Atticus_stop(mb_name) ==
    /\ call = NoCall
    /\ IF mb_name \notin Loaded THEN
            /\ result' = Returned("stop", mb_name, "MockingbirdNotFound")
            /\ UNCHANGED <<mb_procs, call>>
       ELSE IF Proc(mb_name).status # "RUNNING" THEN
            /\ result' = Returned("stop", mb_name, "MockingbirdNotRunning")
            /\ UNCHANGED <<mb_procs, call>>
       ELSE
            /\ mb_procs' = [mb_procs EXCEPT ![Index(mb_procs, mb_name)] =
                                MockingbirdProcess_stop_signal(@)]
            /\ call' = [op |-> "stop", name |-> mb_name, rest |-> <<>>]
            /\ UNCHANGED result

\* A stop_all() loop that leaves after the first running device.
stop_all_loop_first(procs, names) ==
    LET running == SelectSeq(names,
                        LAMBDA n : procs[Index(procs, n)].status = "RUNNING")
    IN  IF running = <<>> THEN [procs |-> procs, call |-> NoCall]
        ELSE [procs |-> [procs EXCEPT ![Index(procs, Head(running))] =
                            MockingbirdProcess_stop_signal(@)],
              call  |-> [op |-> "stop_all", name |-> Head(running), rest |-> <<>>]]

\* The loop of stop_all() over the names still to visit: devices that are
\* not RUNNING are skipped; at the first RUNNING one self.stop(mb_name)
\* signals its worker and blocks in join().
RECURSIVE stop_all_loop(_, _)
stop_all_loop(procs, names) ==
    IF names = <<>> THEN [procs |-> procs, call |-> NoCall]
    ELSE IF procs[Index(procs, Head(names))].status = "RUNNING" THEN
        [procs |-> [procs EXCEPT ![Index(procs, Head(names))] =
                        MockingbirdProcess_stop_signal(@)],
         call  |-> [op |-> "stop_all", name |-> Head(names), rest |-> Tail(names)]]
    ELSE stop_all_loop(procs, Tail(names))

Atticus_stop_all ==
    /\ call = NoCall
    /\ LET r == stop_all_loop(mb_procs, [i \in 1..Len(mb_procs) |-> mb_procs[i].name])
       IN  /\ mb_procs' = r.procs
           /\ call' = r.call
           /\ IF r.call = NoCall
              THEN result' = Returned("stop_all", <<>>, "None")
              ELSE UNCHANGED result

\* join() returns in the blocked stop() or stop_all(): the device becomes
\* STOPPED, stop() returns, stop_all() goes on with the rest of its loop.
Atticus_stop_join ==
    /\ call # NoCall
    /\ MockingbirdProcess_joined(Proc(call.name))
    /\ LET stopped == [mb_procs EXCEPT ![Index(mb_procs, call.name)] =
                            MockingbirdProcess_stop_finish(@)]
       IN  IF call.op = "stop" THEN
                /\ mb_procs' = stopped
                /\ call' = NoCall
                /\ result' = Returned("stop", call.name, "None")
           ELSE LET r == stop_all_loop(stopped, call.rest)
                IN  /\ mb_procs' = r.procs
                    /\ call' = r.call
                    /\ IF r.call = NoCall
                       THEN result' = Returned("stop_all", <<>>, "None")
                       ELSE UNCHANGED result

\* The argument lists status() is called with.
StatusInputs == { <<>>, << <<"t", "1">> >>, << <<"t", "2">>, <<"t", "1">> >>,
                  << <<"t", "1">>, <<"t", "-">> >> }

\* status() that leaves unknown names out instead of raising.
Atticus_status_lenient(args) ==
    /\ call = NoCall
    /\ UNCHANGED <<mb_procs, call>>
    /\ LET mb_names == IF args # <<>> THEN args
                       ELSE [i \in 1..Len(mb_procs) |-> mb_procs[i].name]
       IN  result' = [op |-> "status", arg |-> args, exc |-> "None",
                      value |-> [n \in Range(mb_names) \cap Loaded |-> Proc(n).status]]

Atticus_status(args) ==
    /\ call = NoCall
    /\ UNCHANGED <<mb_procs, call>>
    /\ LET mb_names == IF args # <<>> THEN args
                       ELSE [i \in 1..Len(mb_procs) |-> mb_procs[i].name]
       IN  IF \E i \in 1..Len(mb_names) : mb_names[i] \notin Loaded THEN
                result' = Returned("status", args, "MockingbirdNotFound")
           ELSE
                result' = [op |-> "status", arg |-> args, exc |-> "None",
                           value |-> [n \in Range(mb_names) |-> Proc(n).status]]

(***************************************************************************)
(* The worker process of a device (the target of the Process that          *)
(* _create_process builds): it runs until the stop event is set.           *)
(***************************************************************************)
\* The worker sees the stop event and returns.
Worker_exit(mb_name) ==
    /\ mb_name \in Loaded
    /\ is_alive(Proc(mb_name))
    /\ Proc(mb_name).stop_event
    /\ mb_procs' = [mb_procs EXCEPT ![Index(mb_procs, mb_name)].process = "exited"]
    /\ UNCHANGED <<call, result>>

\* The worker terminates on its own (an exception in the child) although
\* no stop was requested.
Worker_die(mb_name) ==
    /\ mb_name \in Loaded
    /\ is_alive(Proc(mb_name))
    /\ ~Proc(mb_name).stop_event
    /\ mb_procs' = [mb_procs EXCEPT ![Index(mb_procs, mb_name)].process = "exited"]
    /\ UNCHANGED <<call, result>>

(***************************************************************************)
(* mockingbird.py: the pattern syntax.  A string is a sequence of          *)
(* one-character strings; "NUL" stands for the character chr(0).           *)
(***************************************************************************)
\* [\w\d] of VAR_REGEX.
IsWordChar(c) == c \in WordChars

\* The index of the last character of the longest run of word characters
\* of string that starts at p (p - 1 when there is none).
RECURSIVE WordRunEnd(_, _)
WordRunEnd(string, p) ==
    IF p <= Len(string) /\ IsWordChar(string[p]) THEN WordRunEnd(string, p + 1)
    ELSE p - 1

\* "$(" stands at p and the run of word characters after it ends at e: the
\* length of the match of VAR_REGEX, 0 when the name is empty or ")" is
\* missing.
VarRefEnd(string, p, e) ==
    IF e >= p + 2 /\ e + 1 <= Len(string) /\ string[e + 1] = ")"
    THEN e + 2 - p
    ELSE 0

\* VAR_REGEX = \$\(([\w\d]+)\) tried at position p: the length of the match,
\* 0 when there is none.
VarRefAt(string, p) ==
    IF p + 1 <= Len(string) /\ string[p] = "$" /\ string[p + 1] = "("
    THEN VarRefEnd(string, p, WordRunEnd(string, p + 2))
    ELSE 0

\* VAR_REGEX.findall(string), scanning from position p.
RECURSIVE FindVars(_, _)
RECURSIVE FindVarsAt(_, _, _)
FindVars(string, p) ==
    IF p > Len(string) THEN <<>>
    ELSE FindVarsAt(string, p, VarRefAt(string, p))

\* n is the length of the match of VAR_REGEX at p, 0 without a match.
FindVarsAt(string, p, n) ==
    IF n > 0
    THEN <<SubSeq(string, p + 2, p + n - 2)>> \o FindVars(string, p + n)
    ELSE FindVars(string, p + 1)

parse_variables(string) == FindVars(string, 1)

\* The index of the last character of the run of the character c that
\* starts at p.
RECURSIVE RunEnd(_, _, _)
RunEnd(string, c, p) ==
    IF p + 1 <= Len(string) /\ string[p + 1] = c THEN RunEnd(string, c, p + 1)
    ELSE p

\* BRACES_REGEX.sub(r'\0\0', string), scanning from position p: in a
\* replacement template \0 is the octal escape of chr(0), not the matched
\* text, so every run of braces becomes two NUL characters.
RECURSIVE EscapeFrom(_, _)
EscapeFrom(string, p) ==
    IF p > Len(string) THEN <<>>
    ELSE IF string[p] \in {"{", "}"}
         THEN <<"NUL", "NUL">> \o EscapeFrom(string, RunEnd(string, string[p], p) + 1)
         ELSE <<string[p]>> \o EscapeFrom(string, p + 1)

escape_curly_braces(string) == EscapeFrom(string, 1)

\* VAR_REGEX.sub(r'{}', string), scanning from position p.
RECURSIVE SubVars(_, _)
RECURSIVE SubVarsAt(_, _, _)
SubVars(string, p) ==
    IF p > Len(string) THEN <<>>
    ELSE SubVarsAt(string, p, VarRefAt(string, p))

SubVarsAt(string, p, n) ==
    IF n > 0
    THEN <<"{", "}">> \o SubVars(string, p + n)
    ELSE <<string[p]>> \o SubVars(string, p + 1)

transform_formatter_syntax(string) ==
    [text |-> SubVars(escape_curly_braces(string), 1),
     mb_vars |-> parse_variables(string)]

transform_parse_syntax(string) ==
    [text |-> SubVars(escape_curly_braces(string), 1),
     mb_vars |-> parse_variables(string)]

(***************************************************************************)
(* The parse module and str.format, as MockingbirdRequest uses them.       *)
(***************************************************************************)
Lit(c) == [field |-> FALSE, ch |-> c]

Field == [field |-> TRUE, ch |-> ""]

\* parse.compile(format): "{{" and "}}" are literal braces, "{}" is a
\* field, any other character is literal text.
RECURSIVE ParseTokens(_, _)
ParseTokens(format, p) ==
    IF p > Len(format) THEN <<>>
    ELSE IF p + 1 <= Len(format) /\ format[p] = "{" /\ format[p + 1] = "{"
         THEN <<Lit("{")>> \o ParseTokens(format, p + 2)
    ELSE IF p + 1 <= Len(format) /\ format[p] = "}" /\ format[p + 1] = "}"
         THEN <<Lit("}")>> \o ParseTokens(format, p + 2)
    ELSE IF p + 1 <= Len(format) /\ format[p] = "{" /\ format[p + 1] = "}"
         THEN <<Field>> \o ParseTokens(format, p + 2)
    ELSE <<Lit(format[p])>> \o ParseTokens(format, p + 1)

\* The parser matches case-insensitively.
Lower(c) == IF c = "U" THEN "u" ELSE c

NoMatch == [ok |-> FALSE, fixed |-> <<>>]

\* Parser.parse(string): the regular expression of the tokens from ti on
\* matched against string from si to its end.  A field is (.+?): it takes
\* the fewest characters, at least one, that let the rest match.
RECURSIVE MatchFrom(_, _, _, _)
RECURSIVE MatchField(_, _, _, _, _)
RECURSIVE MatchFieldRest(_, _, _, _, _, _)
MatchFrom(tokens, ti, string, si) ==
    IF ti > Len(tokens)
    THEN IF si > Len(string) THEN [ok |-> TRUE, fixed |-> <<>>] ELSE NoMatch
    ELSE IF tokens[ti].field THEN MatchField(tokens, ti, string, si, 1)
    ELSE IF si <= Len(string) /\ Lower(string[si]) = Lower(tokens[ti].ch)
         THEN MatchFrom(tokens, ti + 1, string, si + 1)
         ELSE NoMatch

MatchField(tokens, ti, string, si, n) ==
    IF si + n - 1 > Len(string) THEN NoMatch
    ELSE MatchFieldRest(MatchFrom(tokens, ti + 1, string, si + n),
                        tokens, ti, string, si, n)

\* The field took n characters and rest is the match of what follows.
MatchFieldRest(rest, tokens, ti, string, si, n) ==
    IF rest.ok
    THEN [ok |-> TRUE, fixed |-> <<SubSeq(string, si, si + n - 1)>> \o rest.fixed]
    ELSE MatchField(tokens, ti, string, si, n + 1)

\* parse.compile(format) and Parser.parse(string).
parse_compile(format) == ParseTokens(format, 1)

Parser_parse(parser, string) == MatchFrom(parser, 1, string, 1)

\* format.format(*vals) from position p, vi fields filled so far.
RECURSIVE FormatFrom(_, _, _, _)
FormatFrom(format, p, vals, vi) ==
    IF p > Len(format) THEN <<>>
    ELSE IF p + 1 <= Len(format) /\ format[p] = "{" /\ format[p + 1] = "{"
         THEN <<"{">> \o FormatFrom(format, p + 2, vals, vi)
    ELSE IF p + 1 <= Len(format) /\ format[p] = "}" /\ format[p + 1] = "}"
         THEN <<"}">> \o FormatFrom(format, p + 2, vals, vi)
    ELSE IF p + 1 <= Len(format) /\ format[p] = "{" /\ format[p + 1] = "}"
         THEN vals[vi + 1] \o FormatFrom(format, p + 2, vals, vi + 1)
    ELSE <<format[p]>> \o FormatFrom(format, p + 1, vals, vi)

str_format(format, vals) == FormatFrom(format, 1, vals, 0)

(***************************************************************************)
(* mockingbird.py: MockingbirdRequest.                                     *)
(***************************************************************************)
\* Python's None where a string is expected.
None == <<"None">>

\* Where a MockingbirdRequest is expected and there is none.
NoRequest ==
    [id |-> 0, delay |-> 0, raw_request |-> None, request_parser |-> None,
     req_vars |-> <<>>, raw_response |-> None, response |-> None,
     resp_vars |-> <<>>]

\* MockingbirdRequest(raw_request, raw_response); id tells the objects
\* apart (two requests built from the same strings are two objects).
MockingbirdRequest(id, raw_request, raw_response) ==
    [id |-> id,
     delay |-> 0,
     raw_request |-> raw_request,
     request_parser |-> parse_compile(transform_parse_syntax(raw_request).text),
     req_vars |-> transform_parse_syntax(raw_request).mb_vars,
     raw_response |-> raw_response,
     response |-> IF raw_response # None
                  THEN transform_formatter_syntax(raw_response).text ELSE None,
     resp_vars |-> IF raw_response # None
                   THEN transform_formatter_syntax(raw_response).mb_vars ELSE <<>>]

\* MockingbirdRequest.parse(request): None, or the dictionary of the parsed
\* values as its items in insertion order (a name that occurs twice keeps
\* its first place and its last value).
RECURSIVE DictItems(_, _, _)
DictItems(names, values, i) ==
    IF i > Len(names) THEN <<>>
    ELSE IF \E j \in 1..(i - 1) : names[j] = names[i]
         THEN DictItems(names, values, i + 1)
         ELSE LET last == CHOOSE j \in i..Len(names) :
                            /\ names[j] = names[i]
                            /\ \A k \in (j + 1)..Len(names) : names[k] # names[i]
              IN  <<[name |-> names[i], val |-> values[last]]>>
                    \o DictItems(names, values, i + 1)

ParsedDict(req, parsed_vals) ==
    IF ~parsed_vals.ok THEN [matched |-> FALSE, exc |-> "None", items |-> <<>>]
    ELSE IF Len(req.req_vars) # Len(parsed_vals.fixed)
         THEN [matched |-> FALSE, exc |-> "MockingbirdError", items |-> <<>>]
         ELSE [matched |-> TRUE, exc |-> "None",
               items |-> DictItems(req.req_vars, parsed_vals.fixed, 1)]

MockingbirdRequest_parse(req, request) ==
    ParsedDict(req, Parser_parse(req.request_parser, request))

\* MockingbirdRequest.build_response, given the values read for resp_vars.
MockingbirdRequest_build_response(req, vals) ==
    IF req.response = None THEN None ELSE str_format(req.response, vals)

(***************************************************************************)
(* queue.PriorityQueue: a heapq heap of (respond_time, interface, key,     *)
(* matching_request) tuples.                                               *)
(***************************************************************************)
\* The interface names and reply keys of the model, in Python's string order.
SortedStrings == <<"k1", "k2", "tcp_other_interface", "tcp_test_interface">>

StrPos(str) == CHOOSE i \in 1..Len(SortedStrings) : SortedStrings[i] = str

\* a < b on two entries: "True", "False", or "TypeError" when the
\* comparison reaches two different MockingbirdRequest objects, which
\* define no order.
EntryLess(a, b) ==
    IF a[1] # b[1] THEN (IF a[1] < b[1] THEN "True" ELSE "False")
    ELSE IF a[2] # b[2] THEN (IF StrPos(a[2]) < StrPos(b[2]) THEN "True" ELSE "False")
    ELSE IF a[3] # b[3] THEN (IF StrPos(a[3]) < StrPos(b[3]) THEN "True" ELSE "False")
    ELSE IF a[4].id = b[4].id THEN "False"
    ELSE "TypeError"

\* heapq._siftdown(heap, startpos, pos) with newitem taken out of heap[pos];
\* positions count from 1, so the parent of pos is pos \div 2.
RECURSIVE siftdown(_, _, _, _)
siftdown(heap, startpos, pos, newitem) ==
    IF pos > startpos THEN
        LET parentpos == pos \div 2
            less == EntryLess(newitem, heap[parentpos])
        IN  IF less = "TypeError" THEN [heap |-> heap, exc |-> "TypeError"]
            ELSE IF less = "True"
                 THEN siftdown([heap EXCEPT ![pos] = heap[parentpos]],
                               startpos, parentpos, newitem)
                 ELSE [heap |-> [heap EXCEPT ![pos] = newitem], exc |-> "None"]
    ELSE [heap |-> [heap EXCEPT ![pos] = newitem], exc |-> "None"]

heappush(heap, item) == siftdown(Append(heap, item), 1, Len(heap) + 1, item)

\* heapq._siftup(heap, pos) with newitem taken out of heap[pos]: the
\* smaller child is moved up until a leaf is reached, then newitem is
\* sifted down from there.
RECURSIVE siftup(_, _, _, _)
siftup(heap, startpos, pos, newitem) ==
    LET childpos == 2 * pos
        rightpos == childpos + 1
    IN  IF childpos <= Len(heap) THEN
            LET less == IF rightpos <= Len(heap)
                        THEN EntryLess(heap[childpos], heap[rightpos]) ELSE "True"
                child == IF less = "True" THEN childpos ELSE rightpos
            IN  IF less = "TypeError" THEN [heap |-> heap, exc |-> "TypeError"]
                ELSE siftup([heap EXCEPT ![pos] = heap[child]], startpos, child, newitem)
        ELSE siftdown(heap, startpos, pos, newitem)

\* A pop that takes the entry put last.
heappop_last(heap) ==
    [heap |-> SubSeq(heap, 1, Len(heap) - 1), item |-> heap[Len(heap)],
     exc |-> "None"]

\* heapq.heappop(heap), for a heap that is not empty.
heappop(heap) ==
    LET lastelt == heap[Len(heap)]
        rest == SubSeq(heap, 1, Len(heap) - 1)
    IN  IF rest = <<>> THEN [heap |-> rest, item |-> lastelt, exc |-> "None"]
        ELSE LET r == siftup([rest EXCEPT ![1] = lastelt], 1, 1, lastelt)
             IN  [heap |-> r.heap, item |-> heap[1], exc |-> r.exc]

(***************************************************************************)
(* The configuration of a device and the strings sent to it.               *)
(***************************************************************************)
UNITS_IN == <<"u", "n", "i", "t", "s", " ", "$", "(", "u", "n", "i", "t", ")">>

UNIT_OUT == <<"$", "(", "u", "n", "i", "t", ")">>

SET_COORDINATES_IN == <<"s", "e", "t", " ", "c", "o", "o", "r", "d", "i", "n", "a", "t", "e", "s", " ", "$", "(", "x", ")", " ", "$", "(", "y", ")">>

XY_OUT == <<"$", "(", "x", ")", " ", "$", "(", "y", ")">>

GET_COORDINATES_IN == <<"g", "e", "t", " ", "c", "o", "o", "r", "d", "i", "n", "a", "t", "e", "s">>

INVALID == <<"i", "n", "v", "a", "l", "i", "d">>

UNITS_ == <<"u", "n", "i", "t", "s", " ">>

SET_COORDINATES_ == <<"s", "e", "t", " ", "c", "o", "o", "r", "d", "i", "n", "a", "t", "e", "s", " ">>

\* The variable names of the configuration.
VAR_UNIT == <<"u", "n", "i", "t">>

VAR_X == <<"x">>

VAR_Y == <<"y">>

INTERFACE == "tcp_test_interface"

UNITS_QUERY == <<"u", "n", "i", "t", "s", "?">>

BLAH == <<"b", "l", "a", "h">>

\* Two devices cut from the configuration of the tests: the variable unit
\* with the requests "units $(unit)" and "units?", and the variables x and
\* y with "set coordinates $(x) $(y)" and "get coordinates"; the variables
\* are initially "0", the default response is "invalid".
UnitsConfig ==
    [vars |-> [v \in {VAR_UNIT} |-> <<"0">>],
     interfaces |->
        [i \in {INTERFACE} |->
            [requests |-> << [in |-> UNITS_IN, out |-> UNIT_OUT],
                             [in |-> UNITS_QUERY, out |-> UNIT_OUT] >>,
             default_response |-> INVALID]]]

CoordinatesConfig ==
    [vars |-> [v \in {VAR_X, VAR_Y} |-> <<"0">>],
     interfaces |->
        [i \in {INTERFACE} |->
            [requests |-> << [in |-> SET_COORDINATES_IN, out |-> XY_OUT],
                             [in |-> GET_COORDINATES_IN, out |-> XY_OUT] >>,
             default_response |-> INVALID]]]

ConfigInputs == {UnitsConfig, CoordinatesConfig}

\* The device of test_escape_curly_braces, with "set coordinates $(x) $(y)"
\* beside the request "units {} $(unit)" whose response is "{}$(unit)".
BracesConfig ==
    [vars |-> [v \in {VAR_UNIT, VAR_X, VAR_Y} |-> <<"0">>],
     interfaces |->
        [i \in {INTERFACE} |->
            [requests |-> <<
                [in |-> SET_COORDINATES_IN, out |-> XY_OUT],
                [in |-> <<"u", "n", "i", "t", "s", " ", "{", "}", " ", "$", "(", "u", "n", "i", "t", ")">>,
                 out |-> <<"{", "}", "$", "(", "u", "n", "i", "t", ")">>] >>,
             default_response |-> INVALID]]]

\* The text of a pattern with one variable, with v in place of "$(name)".
WithValue(pattern, v) ==
    LET p == CHOOSE q \in 1..Len(pattern) : VarRefAt(pattern, q) > 0
    IN  SubSeq(pattern, 1, p - 1) \o v
            \o SubSeq(pattern, p + VarRefAt(pattern, p), Len(pattern))

\* The values clients send for unit, and for x and y.
UnitValues == { <<"5">>, <<"7", " ", "5">> }

CoordValues == { <<"1">>, <<"2", "3">> }

UnitsRequest(v) == UNITS_ \o v

SetCoordinatesRequest(x, y) == SET_COORDINATES_ \o x \o <<" ">> \o y

\* The lines the clients of a device send: "units V" and one that matches
\* no request, or "set coordinates X Y" and "get coordinates".
RequestInputs ==
    IF config = BracesConfig
    THEN {SetCoordinatesRequest(<<"1">>, <<"2", "3">>),
          WithValue(config.interfaces[INTERFACE].requests[2].in, <<"5">>)}
    ELSE IF Cardinality(DOMAIN config.interfaces) > 1
    THEN {UnitsRequest(<<"5">>), UNITS_QUERY}
    ELSE IF VAR_UNIT \in DOMAIN config.vars
    THEN {UnitsRequest(v) : v \in UnitValues} \cup {BLAH}
    ELSE {SetCoordinatesRequest(xy[1], xy[2]) :
                xy \in {v \in CoordValues \X CoordValues : v[1] # v[2]}}
            \cup {GET_COORDINATES_IN}

\* The reply keys of the connections (uuid4 strings in the program).
Keys == {"k1", "k2"}

\* How many requests the clients send in all, and how far the clock runs.
MaxRequests == 3

MaxTime == 1

\* Queue(256), Queue(1024), Queue(256) of BeakManager.
TX_Q_SIZE == 256

RX_Q_SIZE == 1024

RR_Q_SIZE == 256

\* TCPServerBeak.MAX_BIND_TRIES.
MAX_BIND_TRIES == 10

\* The port of an interface's configuration.
PORT == 42826

(***************************************************************************)
(* interfaces/_helpers/buffers_container.py: BuffersContainer.  Every      *)
(* method runs under the container's lock, so a call is one step.          *)
(***************************************************************************)
\* deque(maxlen=512).
MAXLEN == 512

KEY == "my_key"

OTHER_KEY == "literally anything"

BufferKeys == {KEY, OTHER_KEY}

FOO == <<"f", "o", "o">>

BAR == <<"b", "a", "r">>

Messages == {FOO, BAR}

\* What a call gave its caller: the exception raised, if any, and the
\* value returned (a message or None, a truth value, or a list of keys).
BcRet(op, key, ack, exc, val, flag, keys) ==
    [op |-> op, key |-> key, ack |-> ack, exc |-> exc, val |-> val,
     flag |-> flag, keys |-> keys]

\* BuffersContainer.__init__.
BuffersContainer_init ==
    /\ buffers = <<>>
    /\ new_data = {}
    /\ bc_ret = BcRet("init", "", FALSE, "None", None, FALSE, {})
    /\ appended = [k \in BufferKeys |-> <<>>]
    /\ popped = [k \in BufferKeys |-> <<>>]

\* A deque without maxlen.
deque_append_unbounded(d, msg) == Append(d, msg)

\* deque.append on a deque with maxlen: a full deque drops its leftmost
\* item.
deque_append(d, msg) ==
    IF Len(d) = MAXLEN THEN Append(Tail(d), msg) ELSE Append(d, msg)

\* BuffersContainer.create.
BuffersContainer_create(buffer_key) ==
    IF buffer_key \in DOMAIN buffers THEN
        /\ bc_ret' = BcRet("create", buffer_key, FALSE, "BufferAlreadyExists",
                           None, FALSE, {})
        /\ UNCHANGED <<buffers, new_data, appended, popped>>
    ELSE
        /\ buffers' = [k \in DOMAIN buffers \cup {buffer_key} |->
                            IF k = buffer_key THEN <<>> ELSE buffers[k]]
        /\ appended' = [appended EXCEPT ![buffer_key] = <<>>]
        /\ popped' = [popped EXCEPT ![buffer_key] = <<>>]
        /\ bc_ret' = BcRet("create", buffer_key, FALSE, "None", None, FALSE, {})
        /\ UNCHANGED new_data

\* An append that makes the buffer it does not find.
BuffersContainer_append_creates(buffer_key, msg) ==
    /\ buffers' = [k \in DOMAIN buffers \cup {buffer_key} |->
                        IF k \in DOMAIN buffers /\ k # buffer_key THEN buffers[k]
                        ELSE IF k \in DOMAIN buffers THEN deque_append(buffers[k], msg)
                        ELSE <<msg>>]
    /\ new_data' = new_data \cup {buffer_key}
    /\ appended' = [appended EXCEPT ![buffer_key] = Append(@, msg)]
    /\ bc_ret' = BcRet("append", buffer_key, FALSE, "None", None, FALSE, {})
    /\ UNCHANGED popped

\* BuffersContainer.append.
BuffersContainer_append(buffer_key, msg) ==
    IF buffer_key \notin DOMAIN buffers THEN
        /\ bc_ret' = BcRet("append", buffer_key, FALSE, "BufferMissingError",
                           None, FALSE, {})
        /\ UNCHANGED <<buffers, new_data, appended, popped>>
    ELSE
        /\ buffers' = [buffers EXCEPT ![buffer_key] = deque_append(@, msg)]
        /\ new_data' = new_data \cup {buffer_key}
        /\ appended' = [appended EXCEPT ![buffer_key] = Append(@, msg)]
        /\ bc_ret' = BcRet("append", buffer_key, FALSE, "None", None, FALSE, {})
        /\ UNCHANGED popped

\* A pop that takes the message appended last.
BuffersContainer_pop_last(buffer_key) ==
    IF buffer_key \notin DOMAIN buffers THEN
        /\ bc_ret' = BcRet("pop", buffer_key, FALSE, "BufferMissingError",
                           None, FALSE, {})
        /\ UNCHANGED <<buffers, new_data, appended, popped>>
    ELSE IF buffers[buffer_key] = <<>> THEN
        /\ bc_ret' = BcRet("pop", buffer_key, FALSE, "None", None, FALSE, {})
        /\ UNCHANGED <<buffers, new_data, appended, popped>>
    ELSE
        LET d == buffers[buffer_key]
            val == d[Len(d)]
        IN  /\ buffers' = [buffers EXCEPT ![buffer_key] = SubSeq(d, 1, Len(d) - 1)]
            /\ new_data' = IF Len(d) = 1 THEN new_data \ {buffer_key} ELSE new_data
            /\ popped' = [popped EXCEPT ![buffer_key] = Append(@, val)]
            /\ bc_ret' = BcRet("pop", buffer_key, FALSE, "None", val, FALSE, {})
            /\ UNCHANGED appended

\* BuffersContainer.pop: popleft, and the notification is dropped when the
\* buffer has become empty.
BuffersContainer_pop(buffer_key) ==
    IF buffer_key \notin DOMAIN buffers THEN
        /\ bc_ret' = BcRet("pop", buffer_key, FALSE, "BufferMissingError",
                           None, FALSE, {})
        /\ UNCHANGED <<buffers, new_data, appended, popped>>
    ELSE IF buffers[buffer_key] = <<>> THEN
        /\ bc_ret' = BcRet("pop", buffer_key, FALSE, "None", None, FALSE, {})
        /\ UNCHANGED <<buffers, new_data, appended, popped>>
    ELSE
        LET val == Head(buffers[buffer_key])
        IN  /\ buffers' = [buffers EXCEPT ![buffer_key] = Tail(@)]
            /\ new_data' = IF Tail(buffers[buffer_key]) = <<>>
                           THEN new_data \ {buffer_key} ELSE new_data
            /\ popped' = [popped EXCEPT ![buffer_key] = Append(@, val)]
            /\ bc_ret' = BcRet("pop", buffer_key, FALSE, "None", val, FALSE, {})
            /\ UNCHANGED appended

\* BuffersContainer.delete.
BuffersContainer_delete(buffer_key) ==
    IF buffer_key \notin DOMAIN buffers THEN
        /\ bc_ret' = BcRet("delete", buffer_key, FALSE, "BufferMissingError",
                           None, FALSE, {})
        /\ UNCHANGED <<buffers, new_data, appended, popped>>
    ELSE
        /\ buffers' = [k \in DOMAIN buffers \ {buffer_key} |-> buffers[k]]
        /\ new_data' = new_data \ {buffer_key}
        /\ bc_ret' = BcRet("delete", buffer_key, FALSE, "None", None, FALSE, {})
        /\ UNCHANGED <<appended, popped>>

\* A query that acknowledges whatever it is told.
BuffersContainer_new_data_acks(ack) ==
    /\ bc_ret' = BcRet("new_data", "", ack, "None", None, FALSE, new_data)
    /\ new_data' = {}
    /\ UNCHANGED <<buffers, appended, popped>>

\* BuffersContainer.new_data.
BuffersContainer_new_data(ack) ==
    /\ bc_ret' = BcRet("new_data", "", ack, "None", None, FALSE, new_data)
    /\ new_data' = IF ack THEN {} ELSE new_data
    /\ UNCHANGED <<buffers, appended, popped>>

\* BuffersContainer.has_new_data.
BuffersContainer_has_new_data(buffer_key, ack) ==
    /\ bc_ret' = BcRet("has_new_data", buffer_key, ack, "None", None,
                       buffer_key \in new_data, {})
    /\ new_data' = IF ack THEN new_data \ {buffer_key} ELSE new_data
    /\ UNCHANGED <<buffers, appended, popped>>

\* BuffersContainer.is_empty.
BuffersContainer_is_empty(buffer_key) ==
    /\ bc_ret' = IF buffer_key \notin DOMAIN buffers
                 THEN BcRet("is_empty", buffer_key, FALSE, "BufferMissingError",
                            None, FALSE, {})
                 ELSE BcRet("is_empty", buffer_key, FALSE, "None", None,
                            Len(buffers[buffer_key]) = 0, {})
    /\ UNCHANGED <<buffers, new_data, appended, popped>>

(***************************************************************************)
(* mockingbird.py: Mockingbird.                                            *)
(***************************************************************************)
Interfaces == DOMAIN config.interfaces

IdleRequestThread(pc) ==
    [pc |-> pc, interface |-> "", key |-> "", request |-> None,
     matching_request |-> NoRequest, val_items |-> <<>>]

IdleRespondThread(pc) ==
    [pc |-> pc, interface |-> "", key |-> "", match_req |-> NoRequest, vals |-> <<>>]

\* Beak.__init__ and TCPServerBeak.__init__: the events are clear, the io
\* thread, the server thread and the consumer thread are created and not
\* started, nothing is registered and the socket is not bound.
NewBeak ==
    [io_thread |-> "new", stop_event |-> FALSE, booted |-> FALSE, registered |-> 0,
     bound |-> FALSE, server_thread |-> "new", consumer_thread |-> "new"]

Beak_init(cfg) == beaks = [i \in DOMAIN cfg.interfaces |-> NewBeak]

\* Mockingbird.__init__ with its BeakManager: nothing registered, the
\* queues empty, the three threads created and not started.
Mockingbird_init(cfg) ==
    /\ BuffersContainer_init
    /\ Beak_init(cfg)
    /\ config = cfg
    /\ stop = FALSE
    /\ mb_vars = cfg.vars
    /\ requests = [i \in DOMAIN cfg.interfaces |-> <<>>]
    /\ default_responses = <<>>
    /\ response_queue = <<>>
    /\ next_id = 1
    /\ register_requests_thread = "new"
    /\ request_thread = IdleRequestThread("new")
    /\ respond_thread = IdleRespondThread("new")
    /\ rr_q = <<>>
    /\ rx_q = <<>>
    /\ tx_q = [i \in DOMAIN cfg.interfaces |-> <<>>]
    /\ beak_procs = [i \in DOMAIN cfg.interfaces |->
                        [running |-> FALSE, pc |-> "off", stop |-> FALSE,
                         port |-> PORT, bind_tries |-> MAX_BIND_TRIES,
                         errno |-> "None"]]
    /\ clients = [k \in Keys |->
                    [interface |-> "", request |-> None, connected |-> FALSE]]
    /\ now = 0
    /\ handled = <<>>

\* A start_all that launches a worker for every interface.
BeakManager_start_all_every(procs) ==
    [i \in DOMAIN procs |->
        [running |-> TRUE, pc |-> "booting", stop |-> FALSE,
         port |-> PORT, bind_tries |-> MAX_BIND_TRIES, errno |-> "None"]]

\* BeakManager.start_all: for every interface that is not running the stop
\* event is cleared and a worker is launched; the worker makes its
\* TCPServerBeak, whose address is that of the configuration and whose
\* bind_tries is MAX_BIND_TRIES.
BeakManager_start_all(procs) ==
    [i \in DOMAIN procs |->
        IF procs[i].running THEN procs[i]
        ELSE [running |-> TRUE, pc |-> "booting", stop |-> FALSE,
              port |-> PORT, bind_tries |-> MAX_BIND_TRIES, errno |-> "None"]]

\* Mockingbird.start.
Mockingbird_start ==
    /\ register_requests_thread = "new"
    /\ request_thread.pc = "new"
    /\ respond_thread.pc = "new"
    /\ beak_procs' = BeakManager_start_all(beak_procs)
    /\ register_requests_thread' = "idle"
    /\ request_thread' = IdleRequestThread("idle")
    /\ respond_thread' = IdleRespondThread("idle")
    /\ stop' = FALSE
    /\ UNCHANGED <<bcVars, beaks, config, mb_vars, requests, default_responses, response_queue,
                   next_id, rr_q, rx_q, tx_q, clients, now, handled>>

\* Mockingbird.start on an engine that was started before: start_all
\* launches the workers that are not running, _stop is set to False, and
\* self._register_requests_thread.start() raises RuntimeError, since the
\* Thread objects are those made in __init__ and a thread can be started
\* only once; the other two threads are not reached.
Mockingbird_start_again ==
    /\ call = NoCall
    /\ register_requests_thread # "new"
    /\ beak_procs' = BeakManager_start_all(beak_procs)
    /\ stop' = FALSE
    /\ result' = Returned("mockingbird_start", <<>>, "RuntimeError")
    /\ UNCHANGED <<bcVars, beaks, config, mb_vars, requests, default_responses, response_queue,
                   next_id, register_requests_thread, request_thread, respond_thread,
                   rr_q, rx_q, tx_q, clients, now, handled, mb_procs, call>>

\* "while not self._stop:" at the top of the loop of a stage, after a turn:
\* the stage waits for its next item ("idle"), or has left its loop.
while_not_stop == IF stop THEN "done" ELSE "idle"

\* A check that finds every variable defined.
verify_vars_defined_none(raw_string) == None

\* _verify_vars_defined(raw_string): the first undefined variable, None
\* when all are defined.
verify_vars_defined(raw_string) ==
    LET names == parse_variables(raw_string)
        undefined == {i \in 1..Len(names) : names[i] \notin DOMAIN mb_vars}
    IN  IF undefined = {} THEN None
        ELSE names[CHOOSE i \in undefined : \A j \in undefined : i <= j]

\* _create_request(raw_req, raw_resp): the exception it raises, if any.
create_request_exc(raw_req, raw_resp) ==
    IF verify_vars_defined(raw_req) # None THEN "MockingbirdUndefinedVar"
    ELSE IF raw_resp # None /\ verify_vars_defined(raw_resp) # None
         THEN "MockingbirdUndefinedVar"
         ELSE "None"

\* The interface whose list lock the match stage holds: _request runs
\* inside "with self._requests[interface].lock".
LockHolder == IF request_thread.pc \in {"assign", "schedule"}
              THEN request_thread.interface ELSE ""

\* A registration stage that keeps the first default response of an
\* interface.
register_request_first_default(interface, raw_req, raw_resp) ==
    IF raw_req # None /\ raw_req # <<>> /\ raw_resp = None THEN
        /\ register_requests_thread' = while_not_stop
        /\ UNCHANGED <<requests, default_responses, next_id>>
    ELSE IF raw_req = None THEN
        IF create_request_exc(<<>>, raw_resp) # "None" THEN
            /\ register_requests_thread' = "crashed"
            /\ UNCHANGED <<requests, default_responses, next_id>>
        ELSE
            /\ default_responses' =
                    [i \in (DOMAIN default_responses) \cup {interface} |->
                        IF i \in DOMAIN default_responses
                        THEN default_responses[i]
                        ELSE MockingbirdRequest(next_id, <<>>, raw_resp)]
            /\ next_id' = next_id + 1
            /\ register_requests_thread' = while_not_stop
            /\ UNCHANGED requests
    ELSE IF create_request_exc(raw_req, raw_resp) # "None" THEN
        /\ register_requests_thread' = "crashed"
        /\ UNCHANGED <<requests, default_responses, next_id>>
    ELSE
        /\ LockHolder # interface
        /\ requests' = [requests EXCEPT ![interface] =
                            Append(@, MockingbirdRequest(next_id, raw_req, raw_resp))]
        /\ next_id' = next_id + 1
        /\ register_requests_thread' = while_not_stop
        /\ UNCHANGED default_responses

\* _register_request(interface, raw_req, raw_resp), called by the
\* registration stage for the item at the head of the registration queue.
\* An exception ends the stage.
register_request(interface, raw_req, raw_resp) ==
    IF raw_req # None /\ raw_req # <<>> /\ raw_resp = None THEN
        /\ register_requests_thread' = while_not_stop
        /\ UNCHANGED <<requests, default_responses, next_id>>
    ELSE IF raw_req = None THEN
        IF create_request_exc(<<>>, raw_resp) # "None" THEN
            /\ register_requests_thread' = "crashed"
            /\ UNCHANGED <<requests, default_responses, next_id>>
        ELSE
            /\ default_responses' =
                    [i \in (DOMAIN default_responses) \cup {interface} |->
                        IF i = interface
                        THEN MockingbirdRequest(next_id, <<>>, raw_resp)
                        ELSE default_responses[i]]
            /\ next_id' = next_id + 1
            /\ register_requests_thread' = while_not_stop
            /\ UNCHANGED requests
    ELSE IF create_request_exc(raw_req, raw_resp) # "None" THEN
        /\ register_requests_thread' = "crashed"
        /\ UNCHANGED <<requests, default_responses, next_id>>
    ELSE
        /\ LockHolder # interface
        /\ requests' = [requests EXCEPT ![interface] =
                            Append(@, MockingbirdRequest(next_id, raw_req, raw_resp))]
        /\ next_id' = next_id + 1
        /\ register_requests_thread' = while_not_stop
        /\ UNCHANGED default_responses

\* One turn of _register_requests_loop that finds an item in the queue.
Register_requests_loop ==
    /\ register_requests_thread = "idle"
    /\ rr_q # <<>>
    /\ rr_q' = Tail(rr_q)
    /\ register_request(Head(rr_q)[1], Head(rr_q)[2], Head(rr_q)[3])
    /\ UNCHANGED <<bcVars, beaks, config, stop, mb_vars, response_queue, request_thread, respond_thread,
                   rx_q, tx_q, beak_procs, clients, now, handled>>

\* random.shuffle(list): every order of the list.
Shuffles(list) ==
    {[i \in 1..Len(list) |-> list[perm[i]]] : perm \in Permutations(1..Len(list))}

\* The least element of a set of indices, 0 for the empty set.
FirstOf(hits) == IF hits = {} THEN 0 ELSE CHOOSE i \in hits : \A j \in hits : i <= j

\* A search that takes the first request of the shuffled list, matching
\* or not.
FirstInList(interface_requests, request) ==
    IF interface_requests = <<>> THEN 0 ELSE 1

\* The loop of _request over the shuffled list: the index of the first
\* request whose parse() matches or raises, 0 when there is none.
FirstMatch(interface_requests, request) ==
    FirstOf({i \in 1..Len(interface_requests) :
                \/ MockingbirdRequest_parse(interface_requests[i], request).matched
                \/ MockingbirdRequest_parse(interface_requests[i], request).exc # "None"})

\* A match stage that knows no default responses.
request_matched_no_default(interface, key, request, interface_requests, m, parsed) ==
    LET matching_request ==
            IF m > 0 THEN interface_requests[m] ELSE NoRequest
    IN  /\ request_thread' =
                IF parsed.exc # "None" THEN IdleRequestThread("crashed")
                ELSE [pc |-> IF parsed.items # <<>> THEN "assign" ELSE "schedule",
                      interface |-> interface, key |-> key, request |-> request,
                      matching_request |-> matching_request,
                      val_items |-> parsed.items]
        /\ handled' = Append(handled,
                [interface |-> interface, key |-> key, request |-> request,
                 registered |-> {interface_requests[i].raw_request :
                                    i \in 1..Len(interface_requests)},
                 matched |-> parsed.matched,
                 req_vars |-> IF parsed.matched THEN matching_request.req_vars
                              ELSE <<>>])

\* _request from the match on: m is the index of the matching request in
\* the shuffled list and parsed what its parse() returned; without a match
\* the default response of the interface, if any, is taken.
request_matched(interface, key, request, interface_requests, m, parsed) ==
    LET matching_request ==
            IF m > 0 THEN interface_requests[m]
            ELSE IF interface \in DOMAIN default_responses
                 THEN default_responses[interface] ELSE NoRequest
    IN  /\ request_thread' =
                IF parsed.exc # "None" THEN IdleRequestThread("crashed")
                ELSE [pc |-> IF parsed.items # <<>> THEN "assign" ELSE "schedule",
                      interface |-> interface, key |-> key, request |-> request,
                      matching_request |-> matching_request,
                      val_items |-> parsed.items]
        /\ handled' = Append(handled,
                [interface |-> interface, key |-> key, request |-> request,
                 registered |-> {interface_requests[i].raw_request :
                                    i \in 1..Len(interface_requests)},
                 matched |-> parsed.matched,
                 req_vars |-> IF parsed.matched THEN matching_request.req_vars
                              ELSE <<>>])

\* _request(interface, key, request) up to its first assignment: the list
\* of the interface is shuffled in place and searched.
request_match(interface, key, request, interface_requests) ==
    /\ requests' = [requests EXCEPT ![interface] = interface_requests]
    /\ \E m \in {FirstMatch(interface_requests, request)} :
            request_matched(interface, key, request, interface_requests, m,
                IF m > 0
                THEN MockingbirdRequest_parse(interface_requests[m], request)
                ELSE [matched |-> FALSE, exc |-> "None", items |-> <<>>])

\* One turn of _request_loop that finds a request in the inbound queue.
Request_loop ==
    /\ request_thread.pc = "idle"
    /\ rx_q # <<>>
    /\ rx_q' = Tail(rx_q)
    /\ \E interface_requests \in Shuffles(requests[Head(rx_q)[1]]) :
            request_match(Head(rx_q)[1], Head(rx_q)[2], Head(rx_q)[3],
                          interface_requests)
    /\ UNCHANGED <<bcVars, beaks, config, stop, mb_vars, default_responses, response_queue, next_id,
                   register_requests_thread, respond_thread, rr_q, tx_q,
                   beak_procs, clients, now>>

\* A match stage that goes on to schedule without assigning.
request_assign_dropped ==
    /\ UNCHANGED mb_vars
    /\ request_thread' = [request_thread EXCEPT !.val_items = <<>>, !.pc = "schedule"]

\* _request: self._mb_vars[mb_var].value = val, for the next item of val_map.
request_assign ==
    /\ mb_vars' = [mb_vars EXCEPT ![Head(request_thread.val_items).name] =
                        Head(request_thread.val_items).val]
    /\ request_thread' =
            [request_thread EXCEPT
                !.val_items = Tail(@),
                !.pc = IF Tail(request_thread.val_items) = <<>>
                       THEN "schedule" ELSE "assign"]

Request_assign ==
    /\ request_thread.pc = "assign"
    /\ request_assign
    /\ UNCHANGED <<bcVars, beaks, config, stop, requests, default_responses, response_queue, next_id,
                   register_requests_thread, respond_thread, rr_q, rx_q, tx_q,
                   beak_procs, clients, now, handled>>

\* _request: respond_time = time.time() + matching_request.delay and the
\* put into the response queue; now' is what time.time() returns.  Without
\* a matching request the attribute access raises; a comparison of the
\* heap may raise: both end the stage.
request_schedule ==
    IF request_thread.matching_request = NoRequest THEN
        /\ request_thread' = IdleRequestThread("crashed")
        /\ UNCHANGED response_queue
    ELSE
        LET respond_time == now' + request_thread.matching_request.delay
            r == heappush(response_queue,
                          <<respond_time, request_thread.interface,
                            request_thread.key, request_thread.matching_request>>)
        IN  /\ response_queue' = r.heap
            /\ request_thread' = IF r.exc = "None"
                                 THEN IdleRequestThread(while_not_stop)
                                 ELSE IdleRequestThread("crashed")

Request_schedule ==
    /\ request_thread.pc = "schedule"
    /\ \E t \in now..MaxTime :
            /\ now' = t
            /\ request_schedule
    /\ UNCHANGED <<bcVars, beaks, config, stop, mb_vars, requests, default_responses, next_id,
                   register_requests_thread, respond_thread, rr_q, rx_q, tx_q,
                   beak_procs, clients, handled>>

\* One turn of _respond_loop that finds an entry in the response queue:
\* the get, which may raise in a comparison of the heap.
respond_get ==
    LET r == heappop(response_queue)
    IN  /\ response_queue' = r.heap
        /\ respond_thread' =
                IF r.exc # "None" THEN IdleRespondThread("crashed")
                ELSE [pc |-> IF r.item[4].response # None /\ r.item[4].resp_vars # <<>>
                             THEN "read" ELSE "put",
                      interface |-> r.item[2], key |-> r.item[3],
                      match_req |-> r.item[4], vals |-> <<>>]

\* A respond stage that takes no entry once the match stage has crashed.
Respond_get_while_matching ==
    /\ respond_thread.pc = "idle"
    /\ request_thread.pc # "crashed"
    /\ response_queue # <<>>
    /\ respond_get
    /\ UNCHANGED <<bcVars, beaks, config, stop, mb_vars, requests, default_responses, next_id,
                   register_requests_thread, request_thread, rr_q, rx_q, tx_q,
                   beak_procs, clients, now, handled>>

Respond_get ==
    /\ respond_thread.pc = "idle"
    /\ response_queue # <<>>
    /\ respond_get
    /\ UNCHANGED <<bcVars, beaks, config, stop, mb_vars, requests, default_responses, next_id,
                   register_requests_thread, request_thread, rr_q, rx_q, tx_q,
                   beak_procs, clients, now, handled>>

\* A respond stage that renders the initial values of the configuration.
respond_read_initial ==
    LET resp_vars == respond_thread.match_req.resp_vars
        vals == Append(respond_thread.vals,
                       config.vars[resp_vars[Len(respond_thread.vals) + 1]])
    IN  respond_thread' =
            [respond_thread EXCEPT
                !.vals = vals,
                !.pc = IF Len(vals) = Len(resp_vars) THEN "put" ELSE "read"]

\* build_response: mb_vars[resp_var].value for the next name of resp_vars.
respond_read ==
    LET resp_vars == respond_thread.match_req.resp_vars
        vals == Append(respond_thread.vals,
                       mb_vars[resp_vars[Len(respond_thread.vals) + 1]])
    IN  respond_thread' =
            [respond_thread EXCEPT
                !.vals = vals,
                !.pc = IF Len(vals) = Len(resp_vars) THEN "put" ELSE "read"]

Respond_read ==
    /\ respond_thread.pc = "read"
    /\ respond_read
    /\ UNCHANGED <<bcVars, beaks, config, stop, mb_vars, requests, default_responses, response_queue,
                   next_id, register_requests_thread, request_thread, rr_q, rx_q,
                   tx_q, beak_procs, clients, now, handled>>

\* interface_queue.put((key, response)), which waits while the queue is full.
respond_put ==
    /\ Len(tx_q[respond_thread.interface]) < TX_Q_SIZE
    /\ tx_q' = [tx_q EXCEPT ![respond_thread.interface] =
                    Append(@, <<respond_thread.key,
                                MockingbirdRequest_build_response(
                                    respond_thread.match_req, respond_thread.vals)>>)]
    /\ respond_thread' = IdleRespondThread(while_not_stop)

Respond_put ==
    /\ respond_thread.pc = "put"
    /\ respond_put
    /\ UNCHANGED <<bcVars, beaks, config, stop, mb_vars, requests, default_responses, response_queue,
                   next_id, register_requests_thread, request_thread, rr_q, rx_q,
                   beak_procs, clients, now, handled>>

\* _register_requests_loop: get(True, 0.1) finds the queue empty, and
\* "while not self._stop" ends the loop.
Register_requests_exit ==
    /\ register_requests_thread = "idle"
    /\ stop
    /\ rr_q = <<>>
    /\ register_requests_thread' = "done"
    /\ UNCHANGED <<bcVars, beaks, config, stop, mb_vars, requests, default_responses, response_queue,
                   next_id, request_thread, respond_thread, rr_q, rx_q, tx_q,
                   beak_procs, clients, now, handled>>

\* _request_loop leaves its loop in the same way.
Request_exit ==
    /\ request_thread.pc = "idle"
    /\ stop
    /\ rx_q = <<>>
    /\ request_thread' = IdleRequestThread("done")
    /\ UNCHANGED <<bcVars, beaks, config, stop, mb_vars, requests, default_responses, response_queue,
                   next_id, register_requests_thread, respond_thread, rr_q, rx_q, tx_q,
                   beak_procs, clients, now, handled>>

\* _respond_loop leaves its loop in the same way.
Respond_exit ==
    /\ respond_thread.pc = "idle"
    /\ stop
    /\ response_queue = <<>>
    /\ respond_thread' = IdleRespondThread("done")
    /\ UNCHANGED <<bcVars, beaks, config, stop, mb_vars, requests, default_responses, response_queue,
                   next_id, register_requests_thread, request_thread, rr_q, rx_q, tx_q,
                   beak_procs, clients, now, handled>>

\* A stop that goes on to the interfaces without waiting for the stages.
Mockingbird_stop_join_no_wait ==
    /\ call.op = "mockingbird_stop"
    /\ call' = [op |-> "stop_all_beaks", name |-> <<>>, rest |-> <<>>]
    /\ UNCHANGED <<bcVars, beaks, config, stop, mb_vars, requests, default_responses, response_queue,
                   next_id, register_requests_thread, request_thread, respond_thread,
                   rr_q, rx_q, tx_q, beak_procs, clients, now, handled,
                   mb_procs, result>>

\* Mockingbird.stop, the three joins: they return when the registration,
\* the match and the respond thread have ended, and stop goes on to
\* self._beak_manager.stop_all().  A thread has ended when its loop was left
\* ("done") or an exception ended it ("crashed").
Mockingbird_stop_join ==
    /\ call.op = "mockingbird_stop"
    /\ register_requests_thread \in {"done", "crashed"}
    /\ request_thread.pc \in {"done", "crashed"}
    /\ respond_thread.pc \in {"done", "crashed"}
    /\ call' = [op |-> "stop_all_beaks", name |-> <<>>, rest |-> <<>>]
    /\ UNCHANGED <<bcVars, beaks, config, stop, mb_vars, requests, default_responses, response_queue,
                   next_id, register_requests_thread, request_thread, respond_thread,
                   rr_q, rx_q, tx_q, beak_procs, clients, now, handled,
                   mb_procs, result>>

\* Mockingbird.stop on a started engine: self._stop = True; the caller
\* then waits in the joins.
Mockingbird_stop ==
    /\ call = NoCall
    /\ register_requests_thread # "new"
    /\ stop' = TRUE
    /\ call' = [op |-> "mockingbird_stop", name |-> <<>>, rest |-> <<>>]
    /\ UNCHANGED <<bcVars, beaks, config, mb_vars, requests, default_responses, response_queue,
                   next_id, register_requests_thread, request_thread, respond_thread,
                   rr_q, rx_q, tx_q, beak_procs, clients, now, handled,
                   mb_procs, result>>

(***************************************************************************)
(* The interface workers (tcp_server_beak.py) and their clients.           *)
(***************************************************************************)
\* _boot_beak entries for the registration queue: the requests of the
\* configuration in order and then the default response.
Registrations(i) ==
    [n \in 1..Len(config.interfaces[i].requests) |->
        <<i, config.interfaces[i].requests[n].in, config.interfaces[i].requests[n].out>>]
        \o << <<i, None, config.interfaces[i].default_response>> >>

\* Beak.start with _boot_beak: the registrations are put on the
\* registration queue, the socket is bound and the server serves clients.
Beak_start(i) ==
    /\ beak_procs[i].pc = "booting"
    /\ Len(rr_q) + Len(Registrations(i)) <= RR_Q_SIZE
    /\ rr_q' = rr_q \o Registrations(i)
    /\ beak_procs' = [beak_procs EXCEPT ![i].pc = "serving"]
    /\ UNCHANGED <<bcVars, beaks, config, stop, mb_vars, requests, default_responses, response_queue,
                   next_id, register_requests_thread, request_thread, respond_thread,
                   rx_q, tx_q, clients, now, handled>>

\* Beak.start when no port can be bound: _boot_beak has put the
\* registrations on the queue, bind_with_incrementing_port raises in the io
\* thread, "booted" is never set and start waits for it without end.
Beak_start_fail(i) ==
    /\ beak_procs[i].pc = "booting"
    /\ Len(rr_q) + Len(Registrations(i)) <= RR_Q_SIZE
    /\ rr_q' = rr_q \o Registrations(i)
    /\ beak_procs' = [beak_procs EXCEPT ![i].pc = "boot_failed"]
    /\ UNCHANGED <<bcVars, beaks, config, stop, mb_vars, requests, default_responses, response_queue,
                   next_id, register_requests_thread, request_thread, respond_thread,
                   rx_q, tx_q, clients, now, handled, coreVars>>

\* _boot_beak up to the bind: the registrations are put on the queue.
Beak_boot(i) ==
    /\ beak_procs[i].pc = "booting"
    /\ Len(rr_q) + Len(Registrations(i)) <= RR_Q_SIZE
    /\ rr_q' = rr_q \o Registrations(i)
    /\ beak_procs' = [beak_procs EXCEPT ![i].pc = "binding"]
    /\ UNCHANGED <<bcVars, beaks, config, stop, mb_vars, requests, default_responses, response_queue,
                   next_id, register_requests_thread, request_thread, respond_thread,
                   rx_q, tx_q, clients, now, handled>>

\* The errno of server_bind and server_activate: none, "address in use",
\* or another socket error.
BindErrnos == {"None", "EADDRINUSE", "EACCES"}

\* A bind that gives up while one try is left.
bind_with_one_try_less(beak, errno) ==
    IF errno = "None" THEN [beak EXCEPT !.pc = "serving"]
    ELSE IF errno = "EADDRINUSE" /\ beak.bind_tries > 1
         THEN [beak EXCEPT !.port = @ + 1, !.bind_tries = @ - 1, !.errno = errno]
         ELSE [beak EXCEPT !.pc = "boot_failed", !.errno = errno]

\* One turn of the loop of bind_with_incrementing_port: the bind succeeds
\* and the loop ends, or it fails with "address in use" while tries are
\* left and the next port is taken, or the error is raised: the io thread
\* ends, "booted" is never set and Beak.start waits for it.
bind_with_incrementing_port(beak, errno) ==
    IF errno = "None" THEN [beak EXCEPT !.pc = "serving"]
    ELSE IF errno = "EADDRINUSE" /\ beak.bind_tries >= 1
         THEN [beak EXCEPT !.port = @ + 1, !.bind_tries = @ - 1, !.errno = errno]
         ELSE [beak EXCEPT !.pc = "boot_failed", !.errno = errno]

Beak_bind(i) ==
    /\ beak_procs[i].pc = "binding"
    /\ \E errno \in BindErrnos :
            beak_procs' = [beak_procs EXCEPT
                              ![i] = bind_with_incrementing_port(@, errno)]
    /\ UNCHANGED <<bcVars, beaks, config, stop, mb_vars, requests, default_responses, response_queue,
                   next_id, register_requests_thread, request_thread, respond_thread,
                   rr_q, rx_q, tx_q, clients, now, handled>>

\* A client connects: _TCPHandler.setup gives the connection its key.
Client_connect(k, i) ==
    /\ beak_procs[i].pc = "serving"
    /\ clients[k].interface = ""
    /\ clients' = [clients EXCEPT ![k].interface = i, ![k].connected = TRUE]
    /\ UNCHANGED <<bcVars, beaks, config, stop, mb_vars, requests, default_responses, response_queue,
                   next_id, register_requests_thread, request_thread, respond_thread,
                   rr_q, rx_q, tx_q, beak_procs, now, handled>>

\* A handler that forwards the next line without waiting for the reply to
\* the line before.
Client_request_pipelined(k, request) ==
    /\ clients[k].interface \in Interfaces
    /\ clients[k].connected
    /\ Len(handled) + Len(rx_q) < MaxRequests
    /\ Len(rx_q) < RX_Q_SIZE
    /\ rx_q' = Append(rx_q, <<clients[k].interface, k, request>>)
    /\ clients' = [clients EXCEPT ![k].request = request]
    /\ UNCHANGED <<bcVars, beaks, config, stop, mb_vars, requests, default_responses, response_queue,
                   next_id, register_requests_thread, request_thread, respond_thread,
                   rr_q, tx_q, beak_procs, now, handled>>

\* _TCPHandler.handle: a complete line is read and forwarded with the key
\* of the connection; the handler then waits for the reply.
Client_request(k, request) ==
    /\ clients[k].interface \in Interfaces
    /\ clients[k].connected
    /\ clients[k].request = None
    /\ Len(handled) + Len(rx_q) < MaxRequests
    /\ Len(rx_q) < RX_Q_SIZE
    /\ rx_q' = Append(rx_q, <<clients[k].interface, k, request>>)
    /\ clients' = [clients EXCEPT ![k].request = request]
    /\ UNCHANGED <<bcVars, beaks, config, stop, mb_vars, requests, default_responses, response_queue,
                   next_id, register_requests_thread, request_thread, respond_thread,
                   rr_q, tx_q, beak_procs, now, handled>>

\* A consumer that hands the reply to any handler that waits for one.
Beak_respond_any(i) ==
    /\ beak_procs[i].pc = "serving"
    /\ tx_q[i] # <<>>
    /\ tx_q' = [tx_q EXCEPT ![i] = Tail(@)]
    /\ \E k \in Keys :
            clients' = IF clients[k].interface = i
                       THEN [clients EXCEPT ![k].request = None]
                       ELSE clients
    /\ UNCHANGED <<bcVars, beaks, config, stop, mb_vars, requests, default_responses, response_queue,
                   next_id, register_requests_thread, request_thread, respond_thread,
                   rr_q, rx_q, beak_procs, now, handled>>

\* mb_receive_loop and _TCPHandler.respond: a reply is taken from the
\* outbound queue and handed to the handler that holds its key, which
\* writes it to its client and is ready for the next line.
Beak_respond(i) ==
    /\ beak_procs[i].pc = "serving"
    /\ tx_q[i] # <<>>
    /\ tx_q' = [tx_q EXCEPT ![i] = Tail(@)]
    /\ clients' = IF clients[Head(tx_q[i])[1]].interface = i
                  THEN [clients EXCEPT ![Head(tx_q[i])[1]].request = None]
                  ELSE clients
    /\ UNCHANGED <<bcVars, beaks, config, stop, mb_vars, requests, default_responses, response_queue,
                   next_id, register_requests_thread, request_thread, respond_thread,
                   rr_q, rx_q, beak_procs, now, handled>>

\* The client closes its connection.
Client_disconnect(k) ==
    /\ clients[k].connected
    /\ clients' = [clients EXCEPT ![k].connected = FALSE]
    /\ UNCHANGED <<bcVars, beaks, config, stop, mb_vars, requests, default_responses, response_queue,
                   next_id, register_requests_thread, request_thread, respond_thread,
                   rr_q, rx_q, tx_q, beak_procs, now, handled>>

\* _TCPHandler.handle returns and finish releases the key: at recv when
\* the client has closed the connection, at recv or in the wait for the
\* reply when the worker is stopping.  The key is not used again.
Handler_finish(k) ==
    /\ clients[k].interface \in Interfaces
    /\ \/ ~clients[k].connected /\ clients[k].request = None
       \/ beak_procs[clients[k].interface].stop
    /\ clients' = [clients EXCEPT ![k] =
                        [interface |-> "closed", request |-> None,
                         connected |-> clients[k].connected]]
    /\ UNCHANGED <<bcVars, beaks, config, stop, mb_vars, requests, default_responses, response_queue,
                   next_id, register_requests_thread, request_thread, respond_thread,
                   rr_q, rx_q, tx_q, beak_procs, now, handled>>

\* beak_main on a KeyboardInterrupt (the signal reaches every process of
\* the terminal): "with beak" is left, Beak.stop sets the stop event of the
\* interface and the worker ends as it does after a stop.
Beak_interrupt(i) ==
    /\ beak_procs[i].pc = "serving"
    /\ ~beak_procs[i].stop
    /\ beak_procs' = [beak_procs EXCEPT ![i].stop = TRUE]
    /\ UNCHANGED <<bcVars, beaks, config, stop, mb_vars, requests, default_responses, response_queue,
                   next_id, register_requests_thread, request_thread, respond_thread,
                   rr_q, rx_q, tx_q, clients, now, handled, coreVars>>

\* beak_main after the stop event: Beak.stop and _shutdown_beak join the
\* consumer and the server thread, the outbound queue is drained, and the
\* process ends when its handler threads (daemon_threads = False) have
\* returned.
Beak_exit(i) ==
    /\ beak_procs[i].pc = "serving"
    /\ beak_procs[i].stop
    /\ \A k \in Keys : clients[k].interface # i
    /\ tx_q' = [tx_q EXCEPT ![i] = <<>>]
    /\ beak_procs' = [beak_procs EXCEPT ![i].pc = "exited"]
    /\ UNCHANGED <<bcVars, beaks, config, stop, mb_vars, requests, default_responses, response_queue,
                   next_id, register_requests_thread, request_thread, respond_thread,
                   rr_q, rx_q, clients, now, handled, coreVars>>

\* The engine's side of the queues as test_respond plays it: a request is
\* taken from the inbound queue and a reply with its key is put on the
\* outbound queue of its interface.
Test_respond ==
    /\ rx_q # <<>>
    /\ rx_q' = Tail(rx_q)
    /\ tx_q' = [tx_q EXCEPT ![Head(rx_q)[1]] =
                    Append(@, <<Head(rx_q)[2], Head(rx_q)[3]>>)]
    /\ UNCHANGED <<bcVars, beaks, config, stop, mb_vars, requests, default_responses, response_queue,
                   next_id, register_requests_thread, request_thread, respond_thread,
                   rr_q, beak_procs, clients, now, handled, coreVars>>

\* BeakManager.stop_all, the loop: beak_proc.stop_event.set() for the next
\* running interface; the caller then waits in process.join().
BeakManager_stop_all_set(i) ==
    /\ call = NoCall \/ (call.op = "stop_all_beaks" /\ call.name = <<>>)
    /\ beak_procs[i].running
    /\ beak_procs' = [beak_procs EXCEPT ![i].stop = TRUE]
    /\ call' = [op |-> "stop_all_beaks", name |-> <<i>>, rest |-> <<>>]
    /\ UNCHANGED <<bcVars, beaks, config, stop, mb_vars, requests, default_responses, response_queue,
                   next_id, register_requests_thread, request_thread, respond_thread,
                   rr_q, rx_q, tx_q, clients, now, handled, mb_procs, result>>

\* BeakManager.stop_all: process.join(), which has no timeout, returns once
\* the worker has ended; running = False.
BeakManager_stop_all_join(i) ==
    /\ call.op = "stop_all_beaks"
    /\ call.name = <<i>>
    /\ beak_procs[i].pc = "exited"
    /\ beak_procs' = [beak_procs EXCEPT ![i].running = FALSE]
    /\ call' = [call EXCEPT !.name = <<>>]
    /\ UNCHANGED <<bcVars, beaks, config, stop, mb_vars, requests, default_responses, response_queue,
                   next_id, register_requests_thread, request_thread, respond_thread,
                   rr_q, rx_q, tx_q, clients, now, handled, mb_procs, result>>

\* BeakManager.stop_all after the loop: the registration queue and the
\* inbound queue are drained and the call returns.
BeakManager_stop_all_drain ==
    /\ call.op = "stop_all_beaks"
    /\ call.name = <<>>
    /\ \A i \in Interfaces : ~beak_procs[i].running
    /\ rr_q' = <<>>
    /\ rx_q' = <<>>
    /\ call' = NoCall
    /\ result' = Returned("stop_all_beaks", <<>>, "None")
    /\ UNCHANGED <<bcVars, beaks, config, stop, mb_vars, requests, default_responses, response_queue,
                   next_id, register_requests_thread, request_thread, respond_thread,
                   tx_q, beak_procs, clients, now, handled, mb_procs>>

(***************************************************************************)
(* The control API driven by one caller (the shell), and the workers.      *)
(***************************************************************************)
\* Atticus.__init__.
Atticus_init ==
    /\ mb_procs = <<>>
    /\ call = NoCall
    /\ result = NoResult

\* In the process of the control API no Mockingbird exists.
NoConfig == [vars |-> <<>>, interfaces |-> <<>>]

Init ==
    /\ Atticus_init
    /\ Mockingbird_init(NoConfig)

Load ==
    /\ \E mb_name \in NameInputs, file \in FileInputs : Atticus_load(mb_name, file)
    /\ UNCHANGED mbVars

Unload ==
    /\ \E mb_name \in NameInputs : Atticus_unload(mb_name)
    /\ UNCHANGED mbVars

Start ==
    /\ \E mb_name \in NameInputs : Atticus_start(mb_name)
    /\ UNCHANGED mbVars

Stop ==
    /\ \E mb_name \in NameInputs : Atticus_stop(mb_name)
    /\ UNCHANGED mbVars

StopAll == Atticus_stop_all /\ UNCHANGED mbVars

StopJoin == Atticus_stop_join /\ UNCHANGED mbVars

Status ==
    /\ \E args \in StatusInputs : Atticus_status(args)
    /\ UNCHANGED mbVars

WorkerExit ==
    /\ \E mb_name \in NameInputs : Worker_exit(mb_name)
    /\ UNCHANGED mbVars

WorkerDie ==
    /\ \E mb_name \in NameInputs : Worker_die(mb_name)
    /\ UNCHANGED mbVars

Next ==
    \/ Load
    \/ Unload
    \/ Start
    \/ Stop
    \/ StopAll
    \/ StopJoin
    \/ Status
    \/ WorkerExit
    \/ WorkerDie

Spec == Init /\ [][Next]_vars

(***************************************************************************)
(* One device engine at work inside its worker process: the three stages,  *)
(* the interface workers and the clients.                                  *)
(***************************************************************************)
InitMb ==
    /\ Atticus_init
    /\ \E cfg \in ConfigInputs : Mockingbird_init(cfg)

BeakStart == \E i \in Interfaces : Beak_start(i)

BeakRespond == \E i \in Interfaces : Beak_respond(i)

ClientConnect == \E k \in Keys, i \in Interfaces : Client_connect(k, i)

ClientRequest == \E k \in Keys, request \in RequestInputs : Client_request(k, request)

NextMb ==
    \/ Mockingbird_start /\ UNCHANGED coreVars
    \/ Register_requests_loop /\ UNCHANGED coreVars
    \/ Request_loop /\ UNCHANGED coreVars
    \/ Request_assign /\ UNCHANGED coreVars
    \/ Request_schedule /\ UNCHANGED coreVars
    \/ Respond_get /\ UNCHANGED coreVars
    \/ Respond_read /\ UNCHANGED coreVars
    \/ Respond_put /\ UNCHANGED coreVars
    \/ BeakStart /\ UNCHANGED coreVars
    \/ BeakRespond /\ UNCHANGED coreVars
    \/ ClientConnect /\ UNCHANGED coreVars
    \/ ClientRequest /\ UNCHANGED coreVars

SpecMb == InitMb /\ [][NextMb]_vars

\* The registration stage takes a registration from its queue.
Register_requests_takes ==
    /\ register_requests_thread = "idle"
    /\ rr_q # <<>>
    /\ rr_q' = Tail(rr_q)

\* The three stages are threads and the interface workers processes of
\* their own: each takes its next step when it can.  For the registration
\* stage the condition WF_vars(Register_requests_loop) is written out, its
\* step being the one that takes a registration from the queue.
SpecMbFair ==
    /\ SpecMb
    /\ \/ []<>(register_requests_thread # "idle" \/ rr_q = <<>>)
       \/ []<><<Register_requests_takes>>_vars
    /\ WF_vars(Request_loop /\ UNCHANGED coreVars)
    /\ WF_vars(Request_assign /\ UNCHANGED coreVars)
    /\ WF_vars(Request_schedule /\ UNCHANGED coreVars)
    /\ WF_vars(Respond_get /\ UNCHANGED coreVars)
    /\ WF_vars(Respond_read /\ UNCHANGED coreVars)
    /\ WF_vars(Respond_put /\ UNCHANGED coreVars)
    /\ WF_vars(BeakStart /\ UNCHANGED coreVars)
    /\ WF_vars(BeakRespond /\ UNCHANGED coreVars)

(***************************************************************************)
(* The interface workers of a device between their clients, which connect, *)
(* send lines and disconnect, and the queues of the BeakManager, which is  *)
(* told to stop them.                                                      *)
(***************************************************************************)
InitBeak ==
    /\ Atticus_init
    /\ Mockingbird_init(UnitsConfig)

NextBeak ==
    \/ Mockingbird_start /\ UNCHANGED coreVars
    \/ BeakStart /\ UNCHANGED coreVars
    \/ \E i \in Interfaces : Beak_start_fail(i)
    \/ ClientConnect /\ UNCHANGED coreVars
    \/ ClientRequest /\ UNCHANGED coreVars
    \/ (\E k \in Keys : Client_disconnect(k)) /\ UNCHANGED coreVars
    \/ (\E k \in Keys : Handler_finish(k)) /\ UNCHANGED coreVars
    \/ Test_respond
    \/ BeakRespond /\ UNCHANGED coreVars
    \/ \E i \in Interfaces : BeakManager_stop_all_set(i)
    \/ \E i \in Interfaces : Beak_exit(i)
    \/ \E i \in Interfaces : BeakManager_stop_all_join(i)
    \/ BeakManager_stop_all_drain

SpecBeak == InitBeak /\ [][NextBeak]_vars

(***************************************************************************)
(* A BuffersContainer used by one caller at a time: two keys, a few        *)
(* messages for each buffer, every method.                                 *)
(***************************************************************************)
MaxAppends == 2

MaxPops == 3

InitBuffers ==
    /\ Atticus_init
    /\ Mockingbird_init(NoConfig)

NextBuffers ==
    \/ /\ \E k \in BufferKeys : BuffersContainer_create(k)
       /\ UNCHANGED <<coreVars, engineVars>>
    \/ /\ \E k \in BufferKeys, msg \in Messages :
            /\ Len(appended[k]) < MaxAppends
            /\ BuffersContainer_append(k, msg)
       /\ UNCHANGED <<coreVars, engineVars>>
    \/ /\ \E k \in BufferKeys : BuffersContainer_pop(k)
       /\ UNCHANGED <<coreVars, engineVars>>
    \/ /\ \E k \in BufferKeys : BuffersContainer_delete(k)
       /\ UNCHANGED <<coreVars, engineVars>>
    \/ /\ \E ack \in BOOLEAN : BuffersContainer_new_data(ack)
       /\ UNCHANGED <<coreVars, engineVars>>
    \/ /\ \E k \in BufferKeys, ack \in BOOLEAN : BuffersContainer_has_new_data(k, ack)
       /\ UNCHANGED <<coreVars, engineVars>>
    \/ /\ \E k \in BufferKeys : BuffersContainer_is_empty(k)
       /\ UNCHANGED <<coreVars, engineVars>>

SpecBuffers == InitBuffers /\ [][NextBuffers]_vars

(***************************************************************************)
(* One buffer of a BuffersContainer is filled beyond the length of its     *)
(* deque while a few messages are popped.                                  *)
(***************************************************************************)
NextDeque ==
    \/ /\ BuffersContainer_create(KEY)
       /\ UNCHANGED <<coreVars, engineVars>>
    \/ /\ \E msg \in Messages :
            /\ Len(appended[KEY]) <= MAXLEN
            /\ Len(appended[KEY]) < 2 \/ msg = FOO
            /\ BuffersContainer_append(KEY, msg)
       /\ UNCHANGED <<coreVars, engineVars>>
    \/ /\ Len(popped[KEY]) < MaxPops
       /\ BuffersContainer_pop(KEY)
       /\ UNCHANGED <<coreVars, engineVars>>
    \/ /\ BuffersContainer_is_empty(KEY)
       /\ UNCHANGED <<coreVars, engineVars>>

SpecDeque == InitBuffers /\ [][NextDeque]_vars

(***************************************************************************)
(* The device engine is stopped (Mockingbird.stop) while its stages and    *)
(* its interface workers are at work.                                      *)
(***************************************************************************)
\* A device under load whose interface worker has ended on a
\* KeyboardInterrupt while requests of its connections were pending: the
\* worker drained its outbound queue as it ended, and the respond stage has
\* since put TX_Q_SIZE replies on it; the reply to one more request is on
\* the response queue.
Mockingbird_loaded(cfg, i) ==
    /\ BuffersContainer_init
    /\ Beak_init(cfg)
    /\ config = cfg
    /\ stop = FALSE
    /\ mb_vars = cfg.vars
    /\ requests = [j \in DOMAIN cfg.interfaces |->
                    [n \in 1..Len(cfg.interfaces[j].requests) |->
                        MockingbirdRequest(n, cfg.interfaces[j].requests[n].in,
                                           cfg.interfaces[j].requests[n].out)]]
    /\ default_responses =
            [j \in DOMAIN cfg.interfaces |->
                MockingbirdRequest(Len(cfg.interfaces[j].requests) + 1, <<>>,
                                   cfg.interfaces[j].default_response)]
    /\ response_queue = << <<0, i, "k1", default_responses[i]>> >>
    /\ next_id = Len(cfg.interfaces[i].requests) + 2
    /\ register_requests_thread = "idle"
    /\ request_thread = IdleRequestThread("idle")
    /\ respond_thread = IdleRespondThread("idle")
    /\ rr_q = <<>>
    /\ rx_q = <<>>
    /\ tx_q = [j \in DOMAIN cfg.interfaces |->
                    [n \in 1..TX_Q_SIZE |-> <<"k2", cfg.interfaces[j].default_response>>]]
    /\ beak_procs = [j \in DOMAIN cfg.interfaces |->
                        [running |-> TRUE, pc |-> "exited", stop |-> TRUE,
                         port |-> PORT, bind_tries |-> MAX_BIND_TRIES,
                         errno |-> "None"]]
    /\ clients = [k \in Keys |->
                    [interface |-> "closed", request |-> None, connected |-> FALSE]]
    /\ now = 0
    /\ handled = <<>>

\* The engine starts as built, or under load as described above.
InitStop ==
    /\ Atticus_init
    /\ Mockingbird_init(UnitsConfig) \/ Mockingbird_loaded(UnitsConfig, INTERFACE)

NextStop ==
    \/ Mockingbird_start /\ UNCHANGED coreVars
    \/ Register_requests_loop /\ UNCHANGED coreVars
    \/ Request_loop /\ UNCHANGED coreVars
    \/ Request_assign /\ UNCHANGED coreVars
    \/ Request_schedule /\ UNCHANGED coreVars
    \/ Respond_get /\ UNCHANGED coreVars
    \/ Respond_read /\ UNCHANGED coreVars
    \/ Respond_put /\ UNCHANGED coreVars
    \/ Register_requests_exit /\ UNCHANGED coreVars
    \/ Request_exit /\ UNCHANGED coreVars
    \/ Respond_exit /\ UNCHANGED coreVars
    \/ BeakStart /\ UNCHANGED coreVars
    \/ BeakRespond /\ UNCHANGED coreVars
    \/ (\E i \in Interfaces : Client_connect("k1", i)) /\ UNCHANGED coreVars
    \/ Client_request("k1", UnitsRequest(<<"5">>)) /\ UNCHANGED coreVars
    \/ Handler_finish("k1") /\ UNCHANGED coreVars
    \/ \E i \in Interfaces : Beak_interrupt(i)
    \/ \E i \in Interfaces : Beak_exit(i)
    \/ Mockingbird_stop
    \/ Mockingbird_stop_join
    \/ \E i \in Interfaces : call # NoCall /\ BeakManager_stop_all_set(i)
    \/ \E i \in Interfaces : BeakManager_stop_all_join(i)
    \/ BeakManager_stop_all_drain

SpecStop == InitStop /\ [][NextStop]_vars

\* The same engine, started again by its owner whenever no call is under
\* way.
NextRestart ==
    \/ NextStop
    \/ Mockingbird_start_again

SpecRestart == InitStop /\ [][NextRestart]_vars

\* The stages, the workers and the handlers of the connections each take
\* their next step when they can, and a join returns when it can; the
\* fairness of the registration stage is written out as in SpecMbFair.
SpecStopFair ==
    /\ SpecStop
    /\ \/ []<>(register_requests_thread # "idle" \/ rr_q = <<>>)
       \/ []<><<Register_requests_takes>>_vars
    /\ WF_vars(Request_loop /\ UNCHANGED coreVars)
    /\ WF_vars(Request_assign /\ UNCHANGED coreVars)
    /\ WF_vars(Request_schedule /\ UNCHANGED coreVars)
    /\ WF_vars(Respond_get /\ UNCHANGED coreVars)
    /\ WF_vars(Respond_read /\ UNCHANGED coreVars)
    /\ WF_vars(Respond_put /\ UNCHANGED coreVars)
    /\ WF_vars(Register_requests_exit /\ UNCHANGED coreVars)
    /\ WF_vars(Request_exit /\ UNCHANGED coreVars)
    /\ WF_vars(Respond_exit /\ UNCHANGED coreVars)
    /\ WF_vars(BeakStart /\ UNCHANGED coreVars)
    /\ WF_vars(BeakRespond /\ UNCHANGED coreVars)
    /\ WF_vars(Handler_finish("k1") /\ UNCHANGED coreVars)
    /\ WF_vars(\E i \in Interfaces : Beak_exit(i))
    /\ WF_vars(Mockingbird_stop_join)

(***************************************************************************)
(* A Running device as the control API sees it, with its engine at work in *)
(* the worker process.                                                     *)
(***************************************************************************)
\* The device "t1" has been loaded and started.
InitRun ==
    /\ mb_procs = <<MockingbirdProcess_start(
                        MockingbirdProcess("simple_tcp.yaml", <<"t", "1">>))>>
    /\ call = NoCall
    /\ result = NoResult
    /\ Mockingbird_init(UnitsConfig)

\* The engine takes its steps while its process is alive; one connection
\* sends "units 5" and the other a line that matches nothing; the control
\* API is asked for the status of the device and told to stop it.
NextRun ==
    \/ is_alive(mb_procs[1]) /\ Mockingbird_start /\ UNCHANGED coreVars
    \/ is_alive(mb_procs[1]) /\ Register_requests_loop /\ UNCHANGED coreVars
    \/ is_alive(mb_procs[1]) /\ Request_loop /\ UNCHANGED coreVars
    \/ is_alive(mb_procs[1]) /\ Request_assign /\ UNCHANGED coreVars
    \/ is_alive(mb_procs[1]) /\ Request_schedule /\ UNCHANGED coreVars
    \/ is_alive(mb_procs[1]) /\ Respond_get /\ UNCHANGED coreVars
    \/ is_alive(mb_procs[1]) /\ Respond_read /\ UNCHANGED coreVars
    \/ is_alive(mb_procs[1]) /\ Respond_put /\ UNCHANGED coreVars
    \/ is_alive(mb_procs[1]) /\ BeakStart /\ UNCHANGED coreVars
    \/ is_alive(mb_procs[1]) /\ BeakRespond /\ UNCHANGED coreVars
    \/ is_alive(mb_procs[1]) /\ ClientConnect /\ UNCHANGED coreVars
    \/ /\ is_alive(mb_procs[1])
       /\ Client_request("k1", UnitsRequest(<<"5">>)) \/ Client_request("k2", BLAH)
       /\ UNCHANGED coreVars
    \/ Atticus_status(<<mb_procs[1].name>>) /\ UNCHANGED mbVars
    \/ Atticus_stop(mb_procs[1].name) /\ UNCHANGED mbVars
    \/ StopJoin
    \/ Worker_exit(mb_procs[1].name) /\ UNCHANGED mbVars

SpecRun == InitRun /\ [][NextRun]_vars

(***************************************************************************)
(* The device engine with requests whose patterns hold literal braces.     *)
(***************************************************************************)
InitBraces ==
    /\ Atticus_init
    /\ Mockingbird_init(BracesConfig)

SpecBraces == InitBraces /\ [][NextMb]_vars

(***************************************************************************)
(* The registration stage fed by interface workers that register any       *)
(* request and response, on a device with two interfaces.                  *)
(***************************************************************************)
INTERFACE2 == "tcp_other_interface"

FAKE_OUT == <<"$", "(", "f", "a", "k", "e", "_", "v", "a", "r", ")">>

\* The device of the tests with a second interface, which has the "units?"
\* request only.
RegConfig ==
    [vars |-> UnitsConfig.vars,
     interfaces |->
        [i \in {INTERFACE, INTERFACE2} |->
            IF i = INTERFACE THEN UnitsConfig.interfaces[INTERFACE]
            ELSE [requests |-> << UnitsConfig.interfaces[INTERFACE].requests[2] >>,
                  default_response |-> INVALID]]]

\* What the workers register: pairs with defined and with undefined
\* variables, default responses, and requests without a response.
RegistrationInputs ==
    { <<UNITS_IN, UNIT_OUT>>, <<UNITS_ \o FAKE_OUT, UNIT_OUT>>, <<UNITS_IN, FAKE_OUT>>,
      <<None, INVALID>>, <<None, UNIT_OUT>>, <<None, FAKE_OUT>>, <<None, None>>,
      <<UNITS_QUERY, None>>, <<UNITS_ \o FAKE_OUT, None>>, << <<>>, None>> }

\* How many registrations are queued or registered at a time.
MaxRegistrations == 3

\* register_request and register_default_request of create_beak, called
\* through Beak._mb_register_request while the interface boots: the
\* registration is put on the registration queue.
Beak_mb_register_request(i, request, response) ==
    /\ beak_procs[i].pc = "booting"
    /\ Len(rr_q) < RR_Q_SIZE
    /\ next_id + Len(rr_q) <= MaxRegistrations
    /\ rr_q' = Append(rr_q, <<i, request, response>>)
    /\ UNCHANGED <<bcVars, beaks, config, stop, mb_vars, requests, default_responses, response_queue,
                   next_id, register_requests_thread, request_thread, respond_thread,
                   rx_q, tx_q, beak_procs, clients, now, handled>>

InitReg ==
    /\ Atticus_init
    /\ Mockingbird_init(RegConfig)

NextReg ==
    \/ Mockingbird_start /\ UNCHANGED coreVars
    \/ /\ \E i \in Interfaces, reg \in RegistrationInputs :
            Beak_mb_register_request(i, reg[1], reg[2])
       /\ UNCHANGED coreVars
    \/ Register_requests_loop /\ UNCHANGED coreVars

SpecReg == InitReg /\ [][NextReg]_vars

\* The device engine of the device with two interfaces.
SpecTwo == InitReg /\ [][NextMb]_vars

(***************************************************************************)
(* The interfaces of a device boot and bind their sockets, turn by turn of *)
(* bind_with_incrementing_port, while the registration stage runs.         *)
(***************************************************************************)
NextBind ==
    \/ Mockingbird_start /\ UNCHANGED coreVars
    \/ Register_requests_loop /\ UNCHANGED coreVars
    \/ (\E i \in Interfaces : Beak_boot(i)) /\ UNCHANGED coreVars
    \/ (\E i \in Interfaces : Beak_bind(i)) /\ UNCHANGED coreVars

SpecBind == InitReg /\ [][NextBind]_vars

(***************************************************************************)
(* The interface worker at the grain of its threads (beak.py,              *)
(* tcp_server_beak.py, beak_manager.py beak_main): the main thread of the  *)
(* worker is beak_procs[i].pc, the io thread, the server thread and the    *)
(* consumer thread are in beaks[i].                                        *)
(***************************************************************************)
\* Beak.start up to the wait: _stop_event.clear() and the io thread is
\* started; the main thread then waits for "booted".
Beak_start_io_thread(i) ==
    /\ beak_procs[i].pc = "booting"
    /\ beaks[i].io_thread = "new"
    /\ beaks' = [beaks EXCEPT ![i].stop_event = FALSE, ![i].io_thread = "boot"]
    /\ UNCHANGED <<bcVars, config, stop, mb_vars, requests, default_responses,
                   response_queue, next_id, register_requests_thread, request_thread,
                   respond_thread, rr_q, rx_q, tx_q, beak_procs, clients, now, handled,
                   coreVars>>

\* _boot_beak, one turn of its loop over the requests, and the default
\* response after the last of them: one put on the registration queue.
Beak_boot_register(i) ==
    /\ beaks[i].io_thread = "boot"
    /\ beaks[i].registered < Len(Registrations(i))
    /\ Len(rr_q) < RR_Q_SIZE
    /\ rr_q' = Append(rr_q, Registrations(i)[beaks[i].registered + 1])
    /\ beaks' = [beaks EXCEPT ![i].registered = @ + 1]
    /\ UNCHANGED <<bcVars, config, stop, mb_vars, requests, default_responses,
                   response_queue, next_id, register_requests_thread, request_thread,
                   respond_thread, rx_q, tx_q, beak_procs, clients, now, handled,
                   coreVars>>

\* _boot_beak after the registrations: one turn of the loop of
\* bind_with_incrementing_port.  When the bind succeeds _boot_beak returns
\* with the socket bound; when the error is raised the io thread ends and
\* the main thread waits for "booted" without end.
Beak_boot_bind(i) ==
    /\ beaks[i].io_thread = "boot"
    /\ beaks[i].registered = Len(Registrations(i))
    /\ \E errno \in BindErrnos :
        LET beak == bind_with_incrementing_port(beak_procs[i], errno)
        IN  /\ beak_procs' = [beak_procs EXCEPT ![i] =
                    IF beak.pc = "serving" THEN beak_procs[i] ELSE beak]
            /\ beaks' = [beaks EXCEPT
                    ![i].bound = (beak.pc = "serving"),
                    ![i].io_thread = IF beak.pc = "serving" THEN "booted"
                                     ELSE IF beak.pc = "boot_failed" THEN "crashed"
                                     ELSE @]
    /\ UNCHANGED <<bcVars, config, stop, mb_vars, requests, default_responses,
                   response_queue, next_id, register_requests_thread, request_thread,
                   respond_thread, rr_q, rx_q, tx_q, clients, now, handled, coreVars>>

\* __io_loop: self.__booted.set().
Beak_io_loop_booted(i) ==
    /\ beaks[i].io_thread = "booted"
    /\ beaks' = [beaks EXCEPT ![i].booted = TRUE, ![i].io_thread = "run"]
    /\ UNCHANGED <<bcVars, config, stop, mb_vars, requests, default_responses,
                   response_queue, next_id, register_requests_thread, request_thread,
                   respond_thread, rr_q, rx_q, tx_q, beak_procs, clients, now, handled,
                   coreVars>>

\* _run_beak: the server thread and the consumer thread are started; the
\* io thread then waits for the stop event of the Beak.
Beak_run_beak(i) ==
    /\ beaks[i].io_thread = "run"
    /\ beaks' = [beaks EXCEPT ![i].server_thread = "running",
                              ![i].consumer_thread = "running",
                              ![i].io_thread = "wait"]
    /\ UNCHANGED <<bcVars, config, stop, mb_vars, requests, default_responses,
                   response_queue, next_id, register_requests_thread, request_thread,
                   respond_thread, rr_q, rx_q, tx_q, beak_procs, clients, now, handled,
                   coreVars>>

\* Beak.start returns once "booted" is set, and beak_main waits for the
\* stop event of the worker.
Beak_start_return(i) ==
    /\ beak_procs[i].pc = "booting"
    /\ beaks[i].booted
    /\ beak_procs' = [beak_procs EXCEPT ![i].pc = "serving"]
    /\ UNCHANGED <<bcVars, beaks, config, stop, mb_vars, requests, default_responses,
                   response_queue, next_id, register_requests_thread, request_thread,
                   respond_thread, rr_q, rx_q, tx_q, clients, now, handled, coreVars>>

\* beak_main after stop.wait(): Beak.stop sets the stop event of the Beak
\* and joins the io thread.
Beak_stop(i) ==
    /\ beak_procs[i].pc = "serving"
    /\ beak_procs[i].stop
    /\ beak_procs' = [beak_procs EXCEPT ![i].pc = "stopping"]
    /\ beaks' = [beaks EXCEPT ![i].stop_event = TRUE]
    /\ UNCHANGED <<bcVars, config, stop, mb_vars, requests, default_responses,
                   response_queue, next_id, register_requests_thread, request_thread,
                   respond_thread, rr_q, rx_q, tx_q, clients, now, handled, coreVars>>

\* mb_receive_loop: "while not self._stop_event.is_set()" is false and the
\* consumer thread ends.
Beak_mb_receive_loop_exit(i) ==
    /\ beaks[i].consumer_thread = "running"
    /\ beaks[i].stop_event
    /\ beaks' = [beaks EXCEPT ![i].consumer_thread = "ended"]
    /\ UNCHANGED <<bcVars, config, stop, mb_vars, requests, default_responses,
                   response_queue, next_id, register_requests_thread, request_thread,
                   respond_thread, rr_q, rx_q, tx_q, beak_procs, clients, now, handled,
                   coreVars>>

\* __io_loop after self._stop_event.wait(): self.__booted.clear().
Beak_io_loop_clear(i) ==
    /\ beaks[i].io_thread = "wait"
    /\ beaks[i].stop_event
    /\ beaks' = [beaks EXCEPT ![i].booted = FALSE, ![i].io_thread = "shutdown"]
    /\ UNCHANGED <<bcVars, config, stop, mb_vars, requests, default_responses,
                   response_queue, next_id, register_requests_thread, request_thread,
                   respond_thread, rr_q, rx_q, tx_q, beak_procs, clients, now, handled,
                   coreVars>>

\* A shutdown that does not wait for the consumer thread.
Beak_shutdown_beak_no_join(i) ==
    /\ beaks[i].io_thread = "shutdown"
    /\ beaks' = [beaks EXCEPT ![i].server_thread = "ended", ![i].io_thread = "ended"]
    /\ UNCHANGED <<bcVars, config, stop, mb_vars, requests, default_responses,
                   response_queue, next_id, register_requests_thread, request_thread,
                   respond_thread, rr_q, rx_q, tx_q, beak_procs, clients, now, handled,
                   coreVars>>

\* _shutdown_beak: consumer_thread.join() returns when the consumer thread
\* has ended; then shutdown() ends serve_forever, the server thread is
\* joined and the io thread ends.
Beak_shutdown_beak(i) ==
    /\ beaks[i].io_thread = "shutdown"
    /\ beaks[i].consumer_thread = "ended"
    /\ beaks' = [beaks EXCEPT ![i].server_thread = "ended", ![i].io_thread = "ended"]
    /\ UNCHANGED <<bcVars, config, stop, mb_vars, requests, default_responses,
                   response_queue, next_id, register_requests_thread, request_thread,
                   respond_thread, rr_q, rx_q, tx_q, beak_procs, clients, now, handled,
                   coreVars>>

\* Beak.stop returns when the io thread has ended (a join that times out
\* after 5 seconds only logs an error, and the process still waits for its
\* threads); beak_main drains the outbound queue and the worker ends.
Beak_main_exit(i) ==
    /\ beak_procs[i].pc = "stopping"
    /\ beaks[i].io_thread = "ended"
    /\ tx_q' = [tx_q EXCEPT ![i] = <<>>]
    /\ beak_procs' = [beak_procs EXCEPT ![i].pc = "exited"]
    /\ UNCHANGED <<bcVars, beaks, config, stop, mb_vars, requests, default_responses,
                   response_queue, next_id, register_requests_thread, request_thread,
                   respond_thread, rr_q, rx_q, clients, now, handled, coreVars>>

NextIo ==
    \/ Mockingbird_start /\ UNCHANGED coreVars
    \/ Register_requests_loop /\ UNCHANGED coreVars
    \/ \E i \in Interfaces : Beak_start_io_thread(i)
    \/ \E i \in Interfaces : Beak_boot_register(i)
    \/ \E i \in Interfaces : Beak_boot_bind(i)
    \/ \E i \in Interfaces : Beak_io_loop_booted(i)
    \/ \E i \in Interfaces : Beak_run_beak(i)
    \/ \E i \in Interfaces : Beak_start_return(i)
    \/ \E i \in Interfaces : Beak_stop(i)
    \/ \E i \in Interfaces : Beak_mb_receive_loop_exit(i)
    \/ \E i \in Interfaces : Beak_io_loop_clear(i)
    \/ \E i \in Interfaces : Beak_shutdown_beak(i)
    \/ \E i \in Interfaces : Beak_main_exit(i)
    \/ \E i \in Interfaces : BeakManager_stop_all_set(i)
    \/ \E i \in Interfaces : BeakManager_stop_all_join(i)
    \/ BeakManager_stop_all_drain

SpecIo == InitBeak /\ [][NextIo]_vars

(***************************************************************************)
(* The engine fed through Beak._mb_request, which takes any key: an        *)
(* interface forwards lines under the keys it chooses.                     *)
(***************************************************************************)
\* Beak._mb_request(key, msg): (name, key, msg) is put on the inbound queue.
Beak_mb_request(i, key, msg) ==
    /\ beak_procs[i].pc = "serving"
    /\ Len(handled) + Len(rx_q) < MaxRequests
    /\ Len(rx_q) < RX_Q_SIZE
    /\ rx_q' = Append(rx_q, <<i, key, msg>>)
    /\ UNCHANGED <<bcVars, beaks, config, stop, mb_vars, requests, default_responses,
                   response_queue, next_id, register_requests_thread, request_thread,
                   respond_thread, rr_q, tx_q, beak_procs, clients, now, handled,
                   coreVars>>

NextSchedule ==
    \/ Mockingbird_start /\ UNCHANGED coreVars
    \/ Register_requests_loop /\ UNCHANGED coreVars
    \/ Request_loop /\ UNCHANGED coreVars
    \/ Request_assign /\ UNCHANGED coreVars
    \/ Request_schedule /\ UNCHANGED coreVars
    \/ Respond_get /\ UNCHANGED coreVars
    \/ Respond_read /\ UNCHANGED coreVars
    \/ Respond_put /\ UNCHANGED coreVars
    \/ BeakStart /\ UNCHANGED coreVars
    \/ BeakRespond /\ UNCHANGED coreVars
    \/ \E i \in Interfaces, key \in Keys, msg \in RequestInputs : Beak_mb_request(i, key, msg)

SpecSchedule == InitBeak /\ [][NextSchedule]_vars

(***************************************************************************)
(* Properties of the control API and of the process supervisor.            *)
(***************************************************************************)
NamesOf(procs) == {procs[i].name : i \in 1..Len(procs)}

StatusIn(procs, mb_name) == procs[Index(procs, mb_name)].status

\* What status() with no arguments reports: each loaded name with its status.
StatusReport(procs) == {<<procs[i].name, procs[i].status>> : i \in 1..Len(procs)}

\* A blocked stop(mb_name) returns in this step.
StopReturns(mb_name) ==
    call.op = "stop" /\ call.name = mb_name /\ Atticus_stop_join

\* C1: start(name) on a loaded, Stopped device leaves it Running; stop(name)
\* on a Running device is accepted and, when it returns, leaves the device
\* Stopped; no device ever has a status other than Stopped or Running.
C1_Lifecycle ==
    [][ /\ \A n \in NameInputs :
            /\ (n \in Loaded /\ Proc(n).status = "STOPPED" /\ Atticus_start(n))
                => /\ n \in NamesOf(mb_procs')
                   /\ StatusIn(mb_procs', n) = "RUNNING"
                   /\ result' = Returned("start", n, "None")
            /\ (n \in Loaded /\ Proc(n).status = "RUNNING" /\ Atticus_stop(n))
                => /\ call'.op = "stop" /\ call'.name = n
                   /\ n \in NamesOf(mb_procs')
            /\ StopReturns(n)
                => /\ n \in NamesOf(mb_procs')
                   /\ StatusIn(mb_procs', n) = "STOPPED"
                   /\ result' = Returned("stop", n, "None")
        /\ \A i \in 1..Len(mb_procs') :
                mb_procs'[i].status \in {"STOPPED", "RUNNING"}
      ]_vars

\* A device that was started and then stopped: stop() has returned and the
\* device is Stopped.
C1_Witness ==
    /\ result.op = "stop" /\ result.exc = "None" /\ call = NoCall
    /\ result.arg \in Loaded
    /\ Proc(result.arg).status = "STOPPED"
    /\ Proc(result.arg).starts >= 1

\* C2: start(name) on a Running device raises MockingbirdRunning and
\* stop(name) on a Stopped device raises MockingbirdNotRunning; status()
\* reports the same before and after the failed call.
C2_FailedStartStop ==
    [][ \A n \in NameInputs :
            /\ (n \in Loaded /\ Proc(n).status = "RUNNING" /\ Atticus_start(n))
                => /\ result' = Returned("start", n, "MockingbirdRunning")
                   /\ StatusReport(mb_procs') = StatusReport(mb_procs)
            /\ (n \in Loaded /\ Proc(n).status = "STOPPED" /\ Atticus_stop(n))
                => /\ result' = Returned("stop", n, "MockingbirdNotRunning")
                   /\ call' = NoCall
                   /\ StatusReport(mb_procs') = StatusReport(mb_procs)
      ]_vars

\* start() has failed on a device that is Running, next to a second device.
C2_Witness ==
    /\ result.op = "start" /\ result.exc = "MockingbirdRunning"
    /\ result.arg \in Loaded
    /\ Proc(result.arg).status = "RUNNING"
    /\ Len(mb_procs) = 2

\* C3: start, stop, unload and status with a name that is not loaded raise
\* MockingbirdNotFound and change neither the loaded set nor any status.
C3_NotFound ==
    [][ /\ \A n \in NameInputs :
            (n \notin Loaded /\ (Atticus_start(n) \/ Atticus_stop(n) \/ Atticus_unload(n)))
                => /\ result'.exc = "MockingbirdNotFound"
                   /\ result'.arg = n
                   /\ call' = NoCall
                   /\ StatusReport(mb_procs') = StatusReport(mb_procs)
        /\ \A args \in StatusInputs :
            ((\E i \in 1..Len(args) : args[i] \notin Loaded) /\ Atticus_status(args))
                => /\ result' = Returned("status", args, "MockingbirdNotFound")
                   /\ StatusReport(mb_procs') = StatusReport(mb_procs)
      ]_vars

\* status() was called with a loaded and an unknown name and has raised,
\* while a device is Running.
C3_Witness ==
    /\ result.op = "status" /\ result.exc = "MockingbirdNotFound"
    /\ \E i \in 1..Len(result.arg) : result.arg[i] \in Loaded
    /\ \E i \in 1..Len(mb_procs) : mb_procs[i].status = "RUNNING"

\* C4: a device leaves the loaded set only while Stopped: unload(name) on a
\* Running device raises MockingbirdRunning and the device stays loaded and
\* Running; unload(name) on a Stopped device removes that name and no other.
C4_UnloadOnlyStopped ==
    [][ /\ \A n \in NameInputs :
            /\ (n \in Loaded /\ Proc(n).status = "RUNNING" /\ Atticus_unload(n))
                => /\ result' = Returned("unload", n, "MockingbirdRunning")
                   /\ n \in NamesOf(mb_procs')
                   /\ StatusIn(mb_procs', n) = "RUNNING"
            /\ (n \in Loaded /\ Proc(n).status = "STOPPED" /\ Atticus_unload(n))
                => /\ result' = Returned("unload", n, "None")
                   /\ NamesOf(mb_procs') = Loaded \ {n}
        /\ \A n \in Loaded \ NamesOf(mb_procs') : Proc(n).status = "STOPPED"
      ]_vars

\* unload() has failed on a Running device, which is still loaded.
C4_Witness ==
    /\ result.op = "unload" /\ result.exc = "MockingbirdRunning"
    /\ result.arg \in Loaded
    /\ Proc(result.arg).status = "RUNNING"
    /\ Len(mb_procs) = 2

\* C5: load() of a loaded name raises MockingbirdAlreadyLoaded and leaves
\* the existing device untouched; a successful load adds the name, Stopped;
\* a load that fails adds nothing.
C5_Load ==
    [][ \A n \in NameInputs, f \in FileInputs :
            Atticus_load(n, f) =>
                /\ n \in Loaded =>
                    /\ result' = Returned("load", n, "MockingbirdAlreadyLoaded")
                    /\ mb_procs' = mb_procs
                /\ result'.exc = "None" =>
                    /\ n \notin Loaded
                    /\ NamesOf(mb_procs') = Loaded \cup {n}
                    /\ StatusIn(mb_procs', n) = "STOPPED"
                /\ result'.exc # "None" => mb_procs' = mb_procs
                /\ ~ValidName(n) => result'.exc = "MockingbirdInvalidName"
                /\ parse_file(f).exc # "None" => result'.exc # "None"
      ]_vars

\* load() has failed on the name of a device that is Running.
C5_Witness ==
    /\ result.op = "load" /\ result.exc = "MockingbirdAlreadyLoaded"
    /\ result.arg \in Loaded
    /\ Proc(result.arg).status = "RUNNING"

\* stop_all() is in progress before or after this step.
InStopAll == call.op = "stop_all" \/ call'.op = "stop_all" \/ Atticus_stop_all

\* stop_all() returns in this step.
StopAllReturns ==
    /\ Atticus_stop_all \/ (call.op = "stop_all" /\ Atticus_stop_join)
    /\ call' = NoCall

\* C6: when stop_all() returns every loaded device is Stopped, and no step
\* of stop_all() changes the set of loaded devices.
C6_StopAll ==
    [][ /\ StopAllReturns =>
            /\ \A i \in 1..Len(mb_procs') : mb_procs'[i].status = "STOPPED"
            /\ result' = Returned("stop_all", <<>>, "None")
        /\ InStopAll =>
            [i \in 1..Len(mb_procs') |-> mb_procs'[i].name]
                = [i \in 1..Len(mb_procs) |-> mb_procs[i].name]
      ]_vars

\* stop_all() has returned with two devices loaded, both of which had been
\* started.
C6_Witness ==
    /\ result.op = "stop_all" /\ call = NoCall
    /\ Len(mb_procs) = 2
    /\ \A i \in 1..2 : mb_procs[i].starts >= 1 /\ mb_procs[i].status = "STOPPED"

\* C7: MockingbirdProcess: when start() returns the status is RUNNING and
\* the worker is alive, also when the device was stopped before (restart);
\* when stop() returns the status is STOPPED and the worker is not alive.
C7_Supervisor ==
    [][ \A n \in NameInputs :
            /\ (n \in Loaded /\ Atticus_start(n) /\ result'.exc = "None")
                => /\ StatusIn(mb_procs', n) = "RUNNING"
                   /\ is_alive(mb_procs'[Index(mb_procs', n)])
                   /\ ~mb_procs'[Index(mb_procs', n)].stop_event
            /\ (n \in Loaded /\ call # NoCall /\ call.name = n /\ Atticus_stop_join)
                => /\ StatusIn(mb_procs', n) = "STOPPED"
                   /\ ~is_alive(mb_procs'[Index(mb_procs', n)])
      ]_vars

\* A device is Running with a live worker after its second start.
C7_Witness ==
    /\ result.op = "start" /\ result.exc = "None"
    /\ result.arg \in Loaded
    /\ Proc(result.arg).starts >= 2
    /\ Proc(result.arg).status = "RUNNING"
    /\ is_alive(Proc(result.arg))

\* A call of load, unload, start or stop for mb_name takes a step (for
\* stop: the call or its return).
CallOn(mb_name) ==
    \/ \E f \in FileInputs : Atticus_load(mb_name, f)
    \/ Atticus_unload(mb_name)
    \/ Atticus_start(mb_name)
    \/ Atticus_stop(mb_name)
    \/ StopReturns(mb_name)

\* C8: load, unload, start and stop of one device change neither the
\* status nor the loaded-ness of any other device.
C8_Independent ==
    [][ \A n \in NameInputs :
            CallOn(n) =>
                \A m \in (Loaded \cup NamesOf(mb_procs')) \ {n} :
                    /\ m \in Loaded /\ m \in NamesOf(mb_procs')
                    /\ StatusIn(mb_procs', m) = StatusIn(mb_procs, m)
      ]_vars

\* A device was unloaded while another device is Running.
C8_Witness ==
    /\ result.op = "unload" /\ result.exc = "None"
    /\ \E i \in 1..Len(mb_procs) : mb_procs[i].status = "RUNNING"

(***************************************************************************)
(* Claims about the device engine (SpecMb).                                *)
(***************************************************************************)
\* The request the match stage took last.
LastHandled == handled[Len(handled)]

\* The place in handled of the last request of the connection with key k,
\* 0 when it sent none.  A connection has one request in flight, so a
\* reply that carries k answers this request.
LastOf(k) ==
    IF \E g \in 1..Len(handled) : handled[g].key = k
    THEN CHOOSE g \in 1..Len(handled) :
            /\ handled[g].key = k
            /\ \A j \in (g + 1)..Len(handled) : handled[j].key # k
    ELSE 0

\* The match stage took "units V" last, with "units $(unit)" registered.
UnitsHandled(V) ==
    /\ handled # <<>>
    /\ LastHandled.request = UnitsRequest(V)
    /\ UNITS_IN \in LastHandled.registered

\* C9: with ("units $(unit)", "$(unit)") registered, the request "units V"
\* sets unit to V before its response is scheduled, and as long as no other
\* request has been handled the response rendered for it is V.
C9_UnitsRoundTrip ==
    \A V \in UnitValues :
        UnitsHandled(V) =>
            /\ request_thread.pc # "assign" => mb_vars[VAR_UNIT] = V
            /\ \A n \in 1..Len(response_queue) :
                    response_queue[n][3] = LastHandled.key =>
                        /\ response_queue[n][4].raw_request = UNITS_IN
                        /\ mb_vars[VAR_UNIT] = V
            /\ (respond_thread.pc = "put" /\ respond_thread.key = LastHandled.key) =>
                    MockingbirdRequest_build_response(
                        respond_thread.match_req, respond_thread.vals) = V
            /\ \A i \in Interfaces : \A n \in 1..Len(tx_q[i]) :
                    tx_q[i][n][1] = LastHandled.key => tx_q[i][n][2] = V

\* "units 5" and then "units 7 5" were handled, and the reply "7 5" for the
\* second is on the outbound queue.
C9_Witness ==
    /\ Len(handled) = 2
    /\ handled[1].request = UnitsRequest(<<"5">>)
    /\ handled[1].matched
    /\ UnitsHandled(<<"7", " ", "5">>)
    /\ \E i \in Interfaces :
            /\ tx_q[i] # <<>>
            /\ Head(tx_q[i]) = <<LastHandled.key, <<"7", " ", "5">> >>

\* The handled request h assigned x or y.
AssignsCoordinates(h) ==
    h.matched /\ (\E n \in 1..Len(h.req_vars) : h.req_vars[n] \in {VAR_X, VAR_Y})

\* The place in handled of the last request before g that assigned x or
\* y, 0 when there is none.
LastSetBefore(g) ==
    IF \E s \in 1..(g - 1) : AssignsCoordinates(handled[s])
    THEN CHOOSE s \in 1..(g - 1) :
            /\ AssignsCoordinates(handled[s])
            /\ \A j \in (s + 1)..(g - 1) : ~AssignsCoordinates(handled[j])
    ELSE 0

\* The reply <<k, response>> answers a "get coordinates" that matched, a
\* request before it assigned x and y, and none has assigned them since
\* that request was taken: the reply shows what that request assigned.
GetRendersLastSet(k, response) ==
    LET g == LastOf(k)
        s == LastSetBefore(g)
    IN  ( /\ g > 0
          /\ handled[g].request = GET_COORDINATES_IN
          /\ handled[g].matched
          /\ s > 0
          /\ \A j \in (g + 1)..Len(handled) : ~AssignsCoordinates(handled[j]) )
        => \A X \in CoordValues, Y \in CoordValues :
                handled[s].request = SetCoordinatesRequest(X, Y) =>
                    response = X \o <<" ">> \o Y

C10_Rendered ==
    /\ (respond_thread.pc = "put" /\ respond_thread.match_req.response # None) =>
            GetRendersLastSet(respond_thread.key,
                MockingbirdRequest_build_response(
                    respond_thread.match_req, respond_thread.vals))
    /\ \A i \in Interfaces : \A n \in 1..Len(tx_q[i]) :
            GetRendersLastSet(tx_q[i][n][1], tx_q[i][n][2])

\* C10: values persist across requests: the reply to "get coordinates"
\* shows the values of the most recent "set coordinates X Y" when no
\* request has assigned x or y in between; and a variable changes only in
\* an assignment of a request whose pattern names it, so a request whose
\* pattern has no variables changes none.
C10_Persistence ==
    [][ /\ C10_Rendered'
        /\ mb_vars' # mb_vars =>
                /\ request_thread.pc = "assign"
                /\ \A v \in DOMAIN mb_vars :
                        mb_vars'[v] # mb_vars[v] =>
                            \E n \in 1..Len(request_thread.matching_request.req_vars) :
                                request_thread.matching_request.req_vars[n] = v
      ]_vars

\* "set coordinates 23 1", then two "get coordinates" were handled, and the
\* reply "23 1" for the second of them is on the outbound queue.
C10_Witness ==
    /\ Len(handled) = 3
    /\ handled[1].request = SetCoordinatesRequest(<<"2", "3">>, <<"1">>)
    /\ handled[1].matched
    /\ handled[2].request = GET_COORDINATES_IN /\ handled[2].matched
    /\ handled[3].request = GET_COORDINATES_IN /\ handled[3].matched
    /\ \E i \in Interfaces :
            /\ tx_q[i] # <<>>
            /\ Head(tx_q[i]) = <<handled[3].key, <<"2", "3", " ", "1">> >>
            /\ LastOf(handled[3].key) = 3

\* The match stage is about to schedule and has found neither a matching
\* request nor a default response for the interface.
NothingToSchedule ==
    /\ request_thread.pc = "schedule"
    /\ request_thread.matching_request = NoRequest

\* C11: when a request matches no registered request on an interface that
\* has no default response, the match stage does not raise: it puts a
\* response with empty text for the key of the request on the response
\* queue and is ready for the next request.
C11_NoDefaultNoRaise ==
    [][ (NothingToSchedule /\ request_thread' # request_thread) =>
            /\ request_thread'.pc = "idle"
            /\ \E n \in 1..Len(response_queue') :
                    /\ response_queue'[n][3] = request_thread.key
                    /\ response_queue'[n][4].response = <<>>
      ]_vars

\* "blah" was taken from the inbound queue before the default response of
\* its interface was registered.
C11_Witness ==
    /\ NothingToSchedule
    /\ request_thread.request = BLAH
    /\ request_thread.interface \notin DOMAIN default_responses

\* The match stage takes a request that matches nothing while a default
\* response is registered for its interface.
TakesUnmatched ==
    /\ Len(handled') = Len(handled) + 1
    /\ ~handled'[Len(handled')].matched
    /\ request_thread'.pc # "crashed"
    /\ handled'[Len(handled')].interface \in DOMAIN default_responses

\* The match stage schedules the default response it took for a request
\* that matched nothing.
SchedulesDefault ==
    /\ request_thread.pc = "schedule"
    /\ request_thread.matching_request # NoRequest
    /\ ~LastHandled.matched
    /\ request_thread'.pc = "idle"

\* C12: a request that matches no registered request of its interface,
\* while a default response is registered for the interface, is answered
\* with the default: the match stage takes the default of the interface,
\* assigns no variable, and the entry it puts on the response queue carries
\* that default, whose response is the default text of the interface.
C12_DefaultTemplate ==
    [][ /\ TakesUnmatched =>
                /\ request_thread'.matching_request =
                        default_responses[handled'[Len(handled')].interface]
                /\ request_thread'.pc = "schedule"
                /\ mb_vars' = mb_vars
        /\ SchedulesDefault =>
                /\ mb_vars' = mb_vars
                /\ \E n \in 1..Len(response_queue') :
                        response_queue'[n] =
                            <<now', request_thread.interface, request_thread.key,
                              request_thread.matching_request>>
                /\ request_thread.matching_request.id =
                        default_responses[request_thread.interface].id
                /\ MockingbirdRequest_build_response(
                        request_thread.matching_request, <<>>) =
                        config.interfaces[request_thread.interface].default_response
      ]_vars

\* "blah" was answered with the default response: the reply "invalid" for
\* its key is on the outbound queue.
C12_Witness ==
    \E i \in Interfaces :
        /\ tx_q[i] # <<>>
        /\ Head(tx_q[i])[2] = INVALID
        /\ LastOf(Head(tx_q[i])[1]) > 0
        /\ handled[LastOf(Head(tx_q[i])[1])].request = BLAH

(***************************************************************************)
(* Claims about the registration stage (SpecReg).                          *)
(***************************************************************************)
\* The registration stage takes the registration at the head of its queue.
Registers == register_requests_thread = "idle" /\ rr_q # <<>> /\ rr_q' = Tail(rr_q)

\* The pattern names a variable that the device does not have.
NamesUndefinedVar(pattern) ==
    /\ pattern # None
    /\ \E n \in 1..Len(parse_variables(pattern)) :
            parse_variables(pattern)[n] \notin DOMAIN mb_vars

\* C13: registering a request with a response, or a default response,
\* whose request or response pattern names a variable the device does not
\* have raises MockingbirdUndefinedVar, and the requests and the default
\* response of every interface stay as they were.
C13_UndefinedVar ==
    [][ ( /\ Registers
          /\ Head(rr_q)[3] # None
          /\ NamesUndefinedVar(Head(rr_q)[2]) \/ NamesUndefinedVar(Head(rr_q)[3]) )
        => /\ create_request_exc(IF Head(rr_q)[2] = None THEN <<>> ELSE Head(rr_q)[2],
                                 Head(rr_q)[3]) = "MockingbirdUndefinedVar"
           /\ register_requests_thread' = "crashed"
           /\ requests' = requests
           /\ default_responses' = default_responses
      ]_vars

\* A registration raised after a request and a default response had been
\* registered, and both are still there.
C13_Witness ==
    /\ register_requests_thread = "crashed"
    /\ next_id = 3
    /\ Len(requests[INTERFACE]) = 1
    /\ INTERFACE \in DOMAIN default_responses

\* C17: a registration whose request is present (not None) and whose
\* response is None is discarded: the requests and the default response of
\* every interface stay as they were, and nothing is raised.
C17_DiscardsNoResponse ==
    [][ (Registers /\ Head(rr_q)[2] # None /\ Head(rr_q)[3] = None)
        => /\ register_requests_thread' = "idle"
           /\ requests' = requests
           /\ default_responses' = default_responses
      ]_vars

\* The empty request with response None is a registered request of the
\* first interface.
C17_Witness ==
    \E n \in 1..Len(requests[INTERFACE]) :
        /\ requests[INTERFACE][n].raw_request = <<>>
        /\ requests[INTERFACE][n].raw_response = None

\* The registration stage takes a default response that names only
\* variables the device has.
RegistersDefault ==
    /\ Registers
    /\ Head(rr_q)[2] = None
    /\ ~NamesUndefinedVar(Head(rr_q)[3])

\* C18: an interface has at most one default response: a registration
\* with request None makes its response the default of its interface in
\* place of the one before, and changes neither the requests of that
\* interface nor the default response or the requests of another.
C18_OneDefault ==
    [][ RegistersDefault =>
            /\ DOMAIN default_responses' = DOMAIN default_responses \cup {Head(rr_q)[1]}
            /\ default_responses'[Head(rr_q)[1]].raw_response = Head(rr_q)[3]
            /\ default_responses'[Head(rr_q)[1]].id = next_id
            /\ \A i \in DOMAIN default_responses :
                    i # Head(rr_q)[1] => default_responses'[i] = default_responses[i]
            /\ requests' = requests
      ]_vars

\* Three default responses were registered on the two interfaces: the
\* default "$(unit)" of the first replaced an earlier one, the second
\* interface has "invalid".
C18_Witness ==
    /\ next_id = 4
    /\ \A i \in Interfaces : requests[i] = <<>>
    /\ DOMAIN default_responses = {INTERFACE, INTERFACE2}
    /\ default_responses[INTERFACE].raw_response = UNIT_OUT
    /\ default_responses[INTERFACE].id = 3
    /\ default_responses[INTERFACE2].raw_response = INVALID

(***************************************************************************)
(* Claims about the interface workers (SpecBeak).                          *)
(***************************************************************************)
\* The consumer of interface i takes the reply at the head of its queue.
TakesReply(i) ==
    /\ tx_q[i] # <<>>
    /\ tx_q'[i] = Tail(tx_q[i])
    /\ beak_procs' = beak_procs

\* C14: a reply is handed only to the connection that holds its key: when
\* the consumer of an interface takes a reply, no connection but the one
\* that holds the key of the reply on that interface is affected, and when
\* no connection holds the key (the handler has finished) the reply is
\* dropped and the worker goes on.
C14_OwnKeyOnly ==
    [][ \A i \in Interfaces :
            TakesReply(i) =>
                /\ \A k \in Keys :
                        clients'[k] # clients[k] =>
                            /\ k = Head(tx_q[i])[1]
                            /\ clients[k].interface = i
                            /\ clients'[k] = [clients[k] EXCEPT !.request = None]
                /\ clients[Head(tx_q[i])[1]].interface # i =>
                        /\ clients' = clients
                        /\ beak_procs'[i].pc = "serving"
      ]_vars

\* The reply at the head of the outbound queue is for a connection whose
\* handler has finished, while another connection waits for its reply.
C14_Witness ==
    \E i \in Interfaces :
        /\ beak_procs[i].pc = "serving"
        /\ tx_q[i] # <<>>
        /\ clients[Head(tx_q[i])[1]].interface = "closed"
        /\ \E k \in Keys :
                /\ clients[k].interface = i
                /\ clients[k].request # None

\* BeakManager.start_all launches a worker and returns.
StartAllReturns ==
    \E i \in Interfaces : ~beak_procs[i].running /\ beak_procs'[i].running

\* C19: starting the interfaces returns only when every started interface
\* has signalled "booted": when start_all returns, each running interface
\* has put its registrations on the registration queue and serves clients.
C19_StartedMeansBooted ==
    [][ StartAllReturns =>
            \A i \in Interfaces :
                beak_procs'[i].running => beak_procs'[i].pc = "serving"
      ]_vars

\* start_all has returned, the stages run, and the interface has neither
\* put a registration on the queue nor bound its socket.
C19_Witness ==
    /\ register_requests_thread = "idle"
    /\ request_thread.pc = "idle"
    /\ rr_q = <<>>
    /\ \E i \in Interfaces :
            /\ beak_procs[i].running
            /\ beak_procs[i].pc = "booting"
            /\ requests[i] = <<>>

\* stop_all waits for the worker of interface i.
WaitsFor(i) == call.op = "stop_all_beaks" /\ call.name = <<i>>

\* C20: stopping the interfaces never blocks the caller for good: after
\* the stop signal stop_all waits for a worker only for a bounded time, so
\* wherever it waits it can go on, whether or not the worker has ended.
C20_BoundedJoin ==
    \A i \in Interfaces :
        WaitsFor(i) => ENABLED BeakManager_stop_all_join(i)

\* stop_all waits for a worker that does not end: it could bind no port
\* and waits in Beak.start for "booted".
C20_Witness ==
    \E i \in Interfaces :
        /\ WaitsFor(i)
        /\ beak_procs[i].stop
        /\ beak_procs[i].pc = "boot_failed"

(***************************************************************************)
(* Claims about brace escaping (SpecBraces).                               *)
(***************************************************************************)
\* The request and the response pattern with literal braces.
BracesPattern == BracesConfig.interfaces[INTERFACE].requests[2]

\* The match stage took, as its g-th request, the line that carries the
\* braces of the pattern and "5" for the variable, with the pattern
\* registered.
BracesHandled(g) ==
    /\ handled[g].request = WithValue(BracesPattern.in, <<"5">>)
    /\ BracesPattern.in \in handled[g].registered

\* C16: brace escaping round-trips: a request that carries the literal
\* braces of a registered pattern and a value for its $(name) field
\* matches the pattern, and the response rendered for it is the response
\* pattern with its braces unchanged and the value in place of $(name).
C16_BracesRoundTrip ==
    /\ \A g \in 1..Len(handled) :
            BracesHandled(g) =>
                /\ handled[g].matched
                /\ handled[g].req_vars = <<VAR_UNIT>>
    /\ \A i \in Interfaces : \A n \in 1..Len(tx_q[i]) :
            ( /\ LastOf(tx_q[i][n][1]) > 0
              /\ BracesHandled(LastOf(tx_q[i][n][1])) )
            => tx_q[i][n][2] = WithValue(BracesPattern.out, <<"5">>)

\* "units {} 5" was taken with "units {} $(unit)" registered, and the reply
\* for it on the outbound queue is the default response.
C16_Witness ==
    \E i \in Interfaces :
        /\ tx_q[i] # <<>>
        /\ LastOf(Head(tx_q[i])[1]) > 0
        /\ BracesHandled(LastOf(Head(tx_q[i])[1]))
        /\ Head(tx_q[i])[2] = INVALID

(***************************************************************************)
(* Claims about the device engine under fair scheduling (SpecMbFair).      *)
(***************************************************************************)
\* C15: while the device runs, the request of every connected client is
\* answered: under fair scheduling of the interface workers and the three
\* stages, a connection that waits for a reply eventually gets it.
C15_EveryReplyDelivered ==
    \A k \in Keys : (clients[k].request # None) ~> (clients[k].request = None)

\* Two connections wait for their replies and the match stage has ended.
C15_Witness ==
    /\ \A k \in Keys : clients[k].request # None
    /\ request_thread.pc = "crashed"

(***************************************************************************)
(* Claims about stopping the device engine (SpecStop).                     *)
(***************************************************************************)
\* The three stages have ended.
StagesTerminated ==
    /\ register_requests_thread \in {"done", "crashed"}
    /\ request_thread.pc \in {"done", "crashed"}
    /\ respond_thread.pc \in {"done", "crashed"}

\* BeakManager.stop_all has told the worker of interface i to stop: it
\* waits for the worker, or has set running to False after the wait.
ToldToStop(i) ==
    \/ call.op = "stop_all_beaks" /\ call.name = <<i>>
    \/ beak_procs[i].pc # "off" /\ ~beak_procs[i].running

\* C23: Mockingbird.stop sets the stop signal and goes on to stop the
\* interfaces only when the registration, the match and the respond stage
\* have all ended; once an interface worker has been told to stop no stage
\* is at work, so none takes from or puts to a queue of the interfaces.
C23_StopOrder ==
    [][ /\ (call.op # "stop_all_beaks" /\ call'.op = "stop_all_beaks") =>
                stop /\ StagesTerminated
        /\ (\E i \in Interfaces : ToldToStop(i)') => StagesTerminated'
        /\ (\E i \in Interfaces : ToldToStop(i)) =>
                /\ UNCHANGED <<register_requests_thread, request_thread,
                               respond_thread, response_queue, requests,
                               default_responses, mb_vars, handled>>
                /\ Len(rr_q') >= Len(rr_q) \/ rr_q' = <<>>
                /\ Len(rx_q') >= Len(rx_q) \/ rx_q' = <<>>
                /\ \A i \in Interfaces : Len(tx_q'[i]) <= Len(tx_q[i])
      ]_vars

\* The worker is being waited for by stop_all after the stages, which had
\* handled a request, left their loops on the stop signal.
C23_Witness ==
    /\ \E i \in Interfaces : call.op = "stop_all_beaks" /\ call.name = <<i>>
    /\ register_requests_thread = "done"
    /\ request_thread.pc = "done"
    /\ respond_thread.pc = "done"
    /\ handled # <<>>

(***************************************************************************)
(* Claims about stopping the device engine under fair scheduling           *)
(* (SpecStopFair).                                                         *)
(***************************************************************************)
\* C30: once the stop signal is set each of the three stages leaves its
\* loop, so that the joins of Mockingbird.stop return, whatever the queues
\* hold, also when the respond stage is putting a reply on an outbound
\* queue that is full.
C30_StagesLeave == stop ~> StagesTerminated

\* The stop signal is set while the respond stage is putting a reply on a
\* full outbound queue whose worker has ended.
C30_Witness ==
    /\ stop
    /\ respond_thread.pc = "put"
    /\ Len(tx_q[respond_thread.interface]) = TX_Q_SIZE
    /\ beak_procs[respond_thread.interface].pc = "exited"

(***************************************************************************)
(* Claims about a Running device and its engine (SpecRun).                 *)
(***************************************************************************)
\* An exception has ended one of the three stages.
StageCrashed ==
    \/ register_requests_thread = "crashed"
    \/ request_thread.pc = "crashed"
    \/ respond_thread.pc = "crashed"

\* C29: a stage whose loop hits an exception ends and is not started
\* again; the step that ends it leaves the other two stages as they are,
\* and they go on: with the match stage crashed the registration stage
\* still takes the registrations and the respond stage the entries that
\* wait for them; the status the control API reports for the device is
\* RUNNING as long as stop has not been called for it.
C29_StageCrash ==
    [][ /\ register_requests_thread = "crashed" => register_requests_thread' = "crashed"
        /\ request_thread.pc = "crashed" => request_thread'.pc = "crashed"
        /\ respond_thread.pc = "crashed" => respond_thread'.pc = "crashed"
        /\ (register_requests_thread # "crashed" /\ register_requests_thread' = "crashed")
                => UNCHANGED <<request_thread, respond_thread, mb_procs>>
        /\ (request_thread.pc # "crashed" /\ request_thread'.pc = "crashed")
                => UNCHANGED <<register_requests_thread, respond_thread, mb_procs>>
        /\ (respond_thread.pc # "crashed" /\ respond_thread'.pc = "crashed")
                => UNCHANGED <<register_requests_thread, request_thread, mb_procs>>
        /\ (request_thread.pc = "crashed" /\ is_alive(mb_procs[1])) =>
                /\ (register_requests_thread = "idle" /\ rr_q # <<>>) =>
                        ENABLED (Register_requests_loop /\ UNCHANGED coreVars)
                /\ (respond_thread.pc = "idle" /\ response_queue # <<>>) =>
                        ENABLED (Respond_get /\ UNCHANGED coreVars)
        /\ (StageCrashed /\ ~mb_procs[1].stop_event) =>
                /\ mb_procs[1].status = "RUNNING"
                /\ (result' # result /\ result'.op = "status") =>
                        result'.value[mb_procs[1].name] = "RUNNING"
      ]_vars

\* The match stage has crashed on the line of one connection; since then
\* the registration stage has registered the default response, the respond
\* stage has put the reply to the other connection on the outbound queue,
\* and status has reported the device RUNNING.
C29_Witness ==
    /\ request_thread.pc = "crashed"
    /\ Len(handled) = 2
    /\ handled[1].request = UnitsRequest(<<"5">>)
    /\ handled[2].request = BLAH
    /\ INTERFACE \in DOMAIN default_responses
    /\ tx_q[INTERFACE] # <<>>
    /\ result.op = "status"
    /\ result.value[mb_procs[1].name] = "RUNNING"

(***************************************************************************)
(* Claims about the lookup and the scheduling of the device engine         *)
(* (SpecMb).                                                               *)
(***************************************************************************)
\* C28: the list of requests registered for an interface is changed by the
\* registration stage only: a step that changes it takes a registration
\* from the registration queue, and the lookup of the match stage leaves
\* the stored list as it is, its members and their order.
C28_ListSingleWriter ==
    [][ requests' # requests =>
            /\ Registers
            /\ Len(handled') = Len(handled)
      ]_vars

\* The lookup for a request has left the two registered requests of its
\* interface in the stored list in the reverse of the order in which they
\* were registered.
C28_Witness ==
    \E i \in Interfaces :
        /\ Len(requests[i]) = 2
        /\ requests[i][1].id > requests[i][2].id
        /\ handled # <<>>

\* The registered requests of an interface that match a request line.
MatchingOf(i, request) ==
    {n \in 1..Len(requests[i]) :
        MockingbirdRequest_parse(requests[i][n], request).matched}

\* C27: when the match stage takes a request that a registered request of
\* its interface matches, it selects a request of that interface's list
\* that matches and keeps exactly the assignments that request extracts;
\* it selects the default response of the interface only when no
\* registered request of the interface matches; the assignments are then
\* applied one by one, and nothing else changes a variable.
C27_SelectsMatch ==
    [][ /\ (Len(handled') = Len(handled) + 1 /\ request_thread'.pc # "crashed") =>
            LET h == handled'[Len(handled')]
                m == MatchingOf(h.interface, h.request)
                chosen == request_thread'.matching_request
            IN  IF m # {}
                THEN /\ \E n \in m : chosen = requests[h.interface][n]
                     /\ request_thread'.val_items =
                            MockingbirdRequest_parse(chosen, h.request).items
                ELSE /\ chosen = IF h.interface \in DOMAIN default_responses
                                 THEN default_responses[h.interface]
                                 ELSE NoRequest
                     /\ request_thread'.val_items = <<>>
        /\ mb_vars' # mb_vars =>
            /\ request_thread.pc = "assign"
            /\ mb_vars' = [mb_vars EXCEPT
                              ![request_thread.val_items[1].name] =
                                  request_thread.val_items[1].val]
            /\ request_thread'.val_items = Tail(request_thread.val_items)
      ]_vars

\* "units 5" went to both interfaces: the first matched it with
\* "units $(unit)", the second, which has no such request, answered with
\* its default response.
C27_Witness ==
    /\ next_id = 6
    /\ mb_vars[VAR_UNIT] = <<"5">>
    /\ \E n \in 1..Len(handled) :
            /\ handled[n].interface = INTERFACE2
            /\ handled[n].request = UnitsRequest(<<"5">>)
    /\ request_thread.pc = "schedule"
    /\ request_thread.interface = INTERFACE2
    /\ request_thread.matching_request = default_responses[INTERFACE2]
    /\ \E n \in 1..Len(requests[INTERFACE]) :
            MockingbirdRequest_parse(requests[INTERFACE][n],
                                     UnitsRequest(<<"5">>)).matched

\* A turn of the match stage for a request it has taken comes to its end.
MatchTurnEnds ==
    /\ \/ request_thread.pc \in {"assign", "schedule"}
       \/ Len(handled') = Len(handled) + 1
    /\ request_thread'.pc \notin {"assign", "schedule"}

\* C24: the turn of the match stage for a request taken from the inbound
\* queue ends with exactly one new entry of the response queue, for the
\* interface and key of the request; the response queue grows in no other
\* way and shrinks only by the entry the respond stage takes; and the
\* respond stage puts, for the entry it took, exactly one message with the
\* entry's key on the outbound queue of the entry's interface, the only
\* way an outbound queue grows.
C24_ExactlyOneReply ==
    [][ LET taken == handled'[Len(handled')]
        IN  /\ MatchTurnEnds =>
                /\ Len(response_queue') = Len(response_queue) + 1
                /\ \E n \in 1..Len(response_queue') :
                        /\ response_queue'[n][2] = taken.interface
                        /\ response_queue'[n][3] = taken.key
            /\ Len(response_queue') > Len(response_queue) => MatchTurnEnds
            /\ Len(response_queue') < Len(response_queue) =>
                /\ Len(response_queue') = Len(response_queue) - 1
                /\ respond_thread.pc = "idle"
                /\ respond_thread'.pc \in {"read", "put"}
                /\ \E n \in 1..Len(response_queue) :
                        /\ response_queue[n][2] = respond_thread'.interface
                        /\ response_queue[n][3] = respond_thread'.key
            /\ (respond_thread.pc \in {"read", "put"}
                    /\ respond_thread'.pc \notin {"read", "put"}) =>
                /\ Len(tx_q'[respond_thread.interface]) =
                        Len(tx_q[respond_thread.interface]) + 1
                /\ tx_q'[respond_thread.interface][
                        Len(tx_q'[respond_thread.interface])][1] = respond_thread.key
            /\ \A i \in Interfaces :
                    Len(tx_q'[i]) > Len(tx_q[i]) =>
                        /\ respond_thread.pc = "put"
                        /\ respond_thread'.pc \notin {"read", "put"}
                        /\ respond_thread.interface = i
                        /\ Len(tx_q'[i]) = Len(tx_q[i]) + 1
      ]_vars

\* The match stage took the request of k1 and ended without an entry in
\* the response queue: nothing was scheduled and nothing was sent.
C24_Witness ==
    /\ request_thread.pc = "crashed"
    /\ handled # <<>>
    /\ handled[Len(handled)].key = "k1"
    /\ response_queue = <<>>
    /\ respond_thread.pc = "idle"
    /\ \A i \in Interfaces : tx_q[i] = <<>>
    /\ Len(handled) = 1

\* C25: a response is rendered from the values the variables have when
\* the respond stage works on its entry: each value it reads is the value
\* of the variable at that step, whatever it was when the request was
\* matched, and the message it puts is the response of the entry's
\* request formatted with the values read.
C25_RendersCurrentValues ==
    [][ /\ (respond_thread.pc = "read" /\ respond_thread' # respond_thread) =>
            LET resp_vars == respond_thread.match_req.resp_vars
                n == Len(respond_thread.vals) + 1
            IN  /\ respond_thread'.vals =
                        Append(respond_thread.vals, mb_vars[resp_vars[n]])
                /\ respond_thread'.pc = IF n = Len(resp_vars) THEN "put" ELSE "read"
        /\ (respond_thread.pc = "put" /\ respond_thread' # respond_thread) =>
            LET q == tx_q'[respond_thread.interface]
            IN  /\ Len(respond_thread.vals) = Len(respond_thread.match_req.resp_vars)
                /\ q[Len(q)][2] =
                        IF respond_thread.match_req.response = None THEN None
                        ELSE str_format(respond_thread.match_req.response,
                                        respond_thread.vals)
      ]_vars

\* "units?" of k1 was matched while unit had its initial value, "units 5"
\* of k2 was matched and applied after it, and the reply to k1, rendered
\* after that, is "5".
C25_Witness ==
    /\ Len(handled) = 2
    /\ handled[1].key = "k1" /\ handled[1].request = UNITS_QUERY /\ handled[1].matched
    /\ handled[2].key = "k2" /\ handled[2].request = UnitsRequest(<<"5">>)
    /\ handled[2].matched
    /\ config.vars[VAR_UNIT] = <<"0">>
    /\ \E i \in Interfaces :
            /\ tx_q[i] # <<>>
            /\ Head(tx_q[i]) = <<"k1", <<"5">> >>

\* The number of places of a sequence that hold x.
CountOf(seq, x) == Cardinality({n \in 1..Len(seq) : seq[n] = x})

\* C26: the respond stage takes the entry with the smallest due time of
\* the response queue: the entry that leaves the queue is the one the
\* stage now works on, no entry of the queue was due strictly before it,
\* and the other entries stay; with an empty queue the stage takes
\* nothing and stays in its loop unless it is told to stop.
C26_SmallestDueFirst ==
    [][ /\ Len(response_queue') < Len(response_queue) =>
            \E n \in 1..Len(response_queue) :
                LET e == response_queue[n]
                IN  /\ \A m \in 1..Len(response_queue) : e[1] <= response_queue[m][1]
                    /\ respond_thread.pc = "idle"
                    /\ respond_thread'.interface = e[2]
                    /\ respond_thread'.key = e[3]
                    /\ respond_thread'.match_req = e[4]
                    /\ \A m \in 1..Len(response_queue) :
                            CountOf(response_queue', response_queue[m]) =
                                CountOf(response_queue, response_queue[m])
                                    - (IF response_queue[m] = e THEN 1 ELSE 0)
        /\ (respond_thread.pc = "idle" /\ response_queue = <<>>) =>
            \/ respond_thread' = respond_thread
            \/ stop /\ respond_thread'.pc = "done"
      ]_vars

\* The requests of k1 and k2 were scheduled in this order, the second at
\* time 1; the respond stage has taken the entry of k1 and the entry of k2
\* is still queued.
C26_Witness ==
    /\ Len(handled) = 2
    /\ handled[1].key = "k1" /\ handled[2].key = "k2"
    /\ respond_thread.pc \in {"read", "put"}
    /\ respond_thread.key = "k1"
    /\ Len(response_queue) = 1
    /\ response_queue[1][1] = 1
    /\ response_queue[1][3] = "k2"

\* Interface i makes a turn of its bind loop.
BindTurn(i) ==
    /\ beak_procs[i].pc = "binding"
    /\ beak_procs'[i] # beak_procs[i]

\* C22: the bind tries the configured port first; each "address in use"
\* failure with a try left takes the next port and uses up one of the
\* MAX_BIND_TRIES tries; with no try left the failure is raised, and any
\* other socket error is raised at once, the port and the tries as they
\* were; so the port is the configured port plus the number of tries used
\* and never beyond the configured port plus MAX_BIND_TRIES, and the loop
\* ends after at most MAX_BIND_TRIES + 1 turns.
C22_BindRetries ==
    [][ \A i \in Interfaces :
            LET beak == beak_procs[i]
                after == beak_procs'[i]
            IN  /\ beak.pc = "booting" =>
                    /\ beak.port = PORT
                    /\ beak.bind_tries = MAX_BIND_TRIES
                    /\ after.port = PORT
                /\ beak.port = PORT + (MAX_BIND_TRIES - beak.bind_tries)
                /\ beak.bind_tries \in 0..MAX_BIND_TRIES
                /\ after.port \in PORT..(PORT + MAX_BIND_TRIES)
                /\ BindTurn(i) =>
                    \/ /\ after.pc = "serving"
                       /\ after.port = beak.port
                       /\ after.bind_tries = beak.bind_tries
                       /\ after.errno = beak.errno
                    \/ /\ after.errno = "EADDRINUSE"
                       /\ beak.bind_tries >= 1
                       /\ after.pc = "binding"
                       /\ after.port = beak.port + 1
                       /\ after.bind_tries = beak.bind_tries - 1
                    \/ /\ after.errno = "EADDRINUSE"
                       /\ beak.bind_tries = 0
                       /\ after.pc = "boot_failed"
                       /\ after.port = beak.port
                       /\ after.bind_tries = 0
                    \/ /\ after.errno \notin {"None", "EADDRINUSE"}
                       /\ after.pc = "boot_failed"
                       /\ after.port = beak.port
                       /\ after.bind_tries = beak.bind_tries
      ]_vars

\* One interface found ports P..P+10 in use and raised at the eleventh
\* failure; the other raised another socket error with tries left.
C22_Witness ==
    /\ beak_procs[INTERFACE].pc = "boot_failed"
    /\ beak_procs[INTERFACE].errno = "EADDRINUSE"
    /\ beak_procs[INTERFACE].bind_tries = 0
    /\ beak_procs[INTERFACE].port = PORT + MAX_BIND_TRIES
    /\ beak_procs[INTERFACE2].pc = "boot_failed"
    /\ beak_procs[INTERFACE2].errno = "EACCES"
    /\ beak_procs[INTERFACE2].bind_tries = 3
    /\ beak_procs[INTERFACE2].port = PORT + 7

\* C21: when an interface can bind no port the failure ends its start and
\* the start of the device with an error: the turn of the bind loop that
\* raises leaves no worker that waits for "booted" while the device runs.
C21_BindFailureAborts ==
    [][ \A i \in Interfaces :
            ( /\ BindTurn(i)
              /\ beak_procs[i].bind_tries = 0
              /\ beak_procs'[i].errno = "EADDRINUSE"
              /\ beak_procs'[i].pc \notin {"binding", "serving"} ) =>
                /\ beak_procs'[i].pc = "exited"
                /\ ~beak_procs'[i].running
                /\ register_requests_thread' # "idle"
      ]_vars

\* An interface has used all its tries and its bind has raised: its worker
\* counts as running and waits for "booted", and the device runs on.
C21_Witness ==
    \E i \in Interfaces :
        /\ beak_procs[i].pc = "boot_failed"
        /\ beak_procs[i].bind_tries = 0
        /\ beak_procs[i].errno = "EADDRINUSE"
        /\ beak_procs[i].running
        /\ ~beak_procs[i].stop
        /\ register_requests_thread = "idle"

(***************************************************************************)
(* Claims about the BuffersContainer (SpecBuffers, SpecDeque).             *)
(***************************************************************************)
\* C38: the error cases leave the container as it was: create on a key
\* that has a buffer raises BufferAlreadyExists, and append, pop, delete
\* and is_empty on a key without a buffer raise BufferMissingError; in
\* both cases the buffers, their contents and the notifications are those
\* of before the call.
C38_ErrorsChangeNothing ==
    [][ LET exists == bc_ret'.key \in DOMAIN buffers
        IN  /\ (bc_ret'.op = "create" /\ exists) =>
                    /\ bc_ret'.exc = "BufferAlreadyExists"
                    /\ buffers' = buffers
                    /\ new_data' = new_data
            /\ (bc_ret'.op \in {"append", "pop", "delete", "is_empty"} /\ ~exists) =>
                    /\ bc_ret'.exc = "BufferMissingError"
                    /\ buffers' = buffers
                    /\ new_data' = new_data
            /\ bc_ret'.exc = "BufferAlreadyExists" =>
                    bc_ret'.op = "create" /\ exists
            /\ bc_ret'.exc = "BufferMissingError" =>
                    bc_ret'.op \in {"append", "pop", "delete", "is_empty"} /\ ~exists
      ]_vars

\* An append to a key without a buffer raised BufferMissingError while
\* the other key has a buffer with a message and a notification.
C38_Witness ==
    /\ bc_ret.op = "append"
    /\ bc_ret.key = OTHER_KEY
    /\ bc_ret.exc = "BufferMissingError"
    /\ DOMAIN buffers = {KEY}
    /\ buffers[KEY] = <<FOO>>
    /\ new_data = {KEY}

\* The messages popped from the buffer of k are the first of those
\* appended to it, in their order.
PoppedInOrder(k) ==
    /\ Len(popped[k]) <= Len(appended[k])
    /\ popped[k] = SubSeq(appended[k], 1, Len(popped[k]))

\* C39: pop returns the messages of a buffer in the order they were
\* appended, and None without an error when the buffer exists and is
\* empty; is_empty is true exactly when every message appended has been
\* popped.
C39_FifoPop ==
    [][ \A k \in DOMAIN buffers :
            /\ (bc_ret'.op = "pop" /\ bc_ret'.key = k) =>
                    /\ bc_ret'.exc = "None"
                    /\ IF buffers[k] = <<>>
                       THEN bc_ret'.val = None /\ popped'[k] = popped[k]
                       ELSE /\ popped'[k] = Append(popped[k], bc_ret'.val)
                            /\ PoppedInOrder(k)'
            /\ (bc_ret'.op = "is_empty" /\ bc_ret'.key = k) =>
                    /\ bc_ret'.exc = "None"
                    /\ bc_ret'.flag = (popped[k] = appended[k])
      ]_vars

\* MAXLEN + 1 messages were appended to the buffer and none was popped:
\* the buffer holds MAXLEN messages, and the first one appended is not
\* among them.
C39_Witness ==
    /\ KEY \in DOMAIN buffers
    /\ Len(appended[KEY]) = MAXLEN + 1
    /\ popped[KEY] = <<>>
    /\ Len(buffers[KEY]) = MAXLEN
    /\ appended[KEY][1] = BAR
    /\ appended[KEY][2] = FOO
    /\ Head(buffers[KEY]) = FOO

\* The call that has just returned did not raise.
Succeeded(op) == bc_ret'.op = op /\ bc_ret'.exc = "None"

\* C40: a key is notified from an append to its buffer until a query
\* acknowledges it, a pop empties the buffer or the buffer is deleted, and
\* at no other time; new_data and has_new_data report the notifications
\* as they are, leave them as they are with ack = False and clear those
\* they report with ack = True; a notified key has a buffer that is not
\* empty.
C40_Notifications ==
    [][ LET k == bc_ret'.key
        IN  /\ \A n \in new_data' : n \in DOMAIN buffers' /\ buffers'[n] # <<>>
            /\ Succeeded("append") => new_data' = new_data \cup {k}
            /\ Succeeded("pop") =>
                    new_data' = IF buffers'[k] = <<>> THEN new_data \ {k} ELSE new_data
            /\ Succeeded("delete") => new_data' = new_data \ {k}
            /\ bc_ret'.op = "new_data" =>
                    /\ bc_ret'.keys = new_data
                    /\ new_data' = IF bc_ret'.ack THEN {} ELSE new_data
            /\ bc_ret'.op = "has_new_data" =>
                    /\ bc_ret'.flag = (k \in new_data)
                    /\ new_data' = IF bc_ret'.ack THEN new_data \ {k} ELSE new_data
            /\ (bc_ret'.op \in {"create", "is_empty"} \/ bc_ret'.exc # "None") =>
                    new_data' = new_data
      ]_vars

\* Two messages were appended to a buffer and one was popped; a query
\* with ack = False has reported the key, and the key is still notified.
C40_Witness ==
    /\ bc_ret.op = "new_data"
    /\ ~bc_ret.ack
    /\ bc_ret.keys = {KEY}
    /\ new_data = {KEY}
    /\ Len(appended[KEY]) = 2
    /\ Len(popped[KEY]) = 1
    /\ Len(buffers[KEY]) = 1

\* The worker of an interface is alive: its process was launched and has
\* not ended.
WorkerAlive(beak) == beak.pc \in {"booting", "binding", "serving", "boot_failed"}

\* A step launches a worker for the interface.
Launched(i) == beak_procs'[i].pc = "booting" /\ beak_procs[i].pc # "booting"

\* C31: an interface has at most one worker: a worker is launched only
\* for an interface that is not marked running and whose earlier worker,
\* if any, has ended; the launched worker has its stop signal cleared and
\* the interface is marked running; a worker that is alive belongs to an
\* interface marked running, so a start_all that follows a start_all
\* launches nothing; and when stop_all returns no interface is marked
\* running and no worker is alive.
C31_OneWorkerPerInterface ==
    [][ \A i \in Interfaces :
            /\ WorkerAlive(beak_procs[i]) => beak_procs[i].running
            /\ Launched(i) =>
                    /\ ~beak_procs[i].running
                    /\ ~WorkerAlive(beak_procs[i])
                    /\ beak_procs'[i].running
                    /\ ~beak_procs'[i].stop
            /\ (beak_procs[i].running /\ result'.op = "mockingbird_start"
                    /\ call = NoCall /\ call' = NoCall /\ stop' = FALSE
                    /\ beak_procs'[i].pc = "booting") =>
                    beak_procs'[i] = beak_procs[i]
            /\ (call.op = "stop_all_beaks" /\ call' = NoCall) =>
                    /\ ~beak_procs'[i].running
                    /\ ~WorkerAlive(beak_procs'[i])
      ]_vars

\* The engine was stopped and started again: the workers of the first
\* start have ended, and the second start has launched a worker for an
\* interface.
C31_Witness ==
    /\ result.op = "mockingbird_start"
    /\ result.exc = "RuntimeError"
    /\ register_requests_thread = "done"
    /\ \E i \in Interfaces :
            /\ beak_procs[i].running
            /\ beak_procs[i].pc = "booting"
            /\ ~beak_procs[i].stop

\* A stage is running: its thread was started and has not ended.
StageRunning(pc) == pc \notin {"new", "done", "crashed"}

\* C36: a start() that follows a completed stop() on the same engine
\* returns without error and leaves the registration, the match and the
\* respond stage running.
C36_StartAfterStop ==
    [][ (result.op = "stop_all_beaks" /\ result'.op = "mockingbird_start") =>
            /\ result'.exc = "None"
            /\ StageRunning(register_requests_thread')
            /\ StageRunning(request_thread'.pc)
            /\ StageRunning(respond_thread'.pc)
      ]_vars

\* start() was called after stop() had returned: it raised, the three
\* stages are still ended, the stop flag is cleared and the workers of the
\* interfaces run again.
C36_Witness ==
    /\ result.op = "mockingbird_start"
    /\ result.exc = "RuntimeError"
    /\ ~stop
    /\ register_requests_thread = "done"
    /\ request_thread.pc = "done"
    /\ respond_thread.pc = "done"
    /\ \A i \in Interfaces : beak_procs[i].running /\ beak_procs[i].pc = "serving"

\* C32: "booted" is set only when every startup request and the default
\* response of the interface have been put on the registration queue and
\* the socket is bound, and it is set only then; once the interface
\* runs, nothing of it changes until its stop event is set, which happens
\* only after the stop signal of the worker; and the server is shut down
\* only after "booted" was cleared and the consumer thread has ended.
C32_BootOrder ==
    [][ \A i \in Interfaces :
            /\ beaks[i].booted =>
                    /\ beaks[i].registered = Len(Registrations(i))
                    /\ beaks[i].bound
            /\ (beaks'[i].registered = beaks[i].registered + 1) =>
                    /\ ~beaks[i].booted
                    /\ rr_q' = Append(rr_q, Registrations(i)[beaks'[i].registered])
            /\ (beaks[i].io_thread = "wait" /\ ~beaks'[i].stop_event) =>
                    beaks'[i] = beaks[i]
            /\ (~beaks[i].stop_event /\ beaks'[i].stop_event) => beak_procs[i].stop
            /\ (beaks[i].server_thread = "running" /\ beaks'[i].server_thread # "running") =>
                    /\ ~beaks[i].booted
                    /\ beaks[i].stop_event
                    /\ beaks[i].consumer_thread = "ended"
      ]_vars

\* A worker has booted, run and shut down: its registrations are on the
\* queue or processed, the socket was bound, "booted" is cleared and the
\* consumer thread and the server thread have ended.
C32_Witness ==
    \E i \in Interfaces :
        /\ beak_procs[i].pc = "exited"
        /\ beaks[i].io_thread = "ended"
        /\ beaks[i].registered = Len(Registrations(i))
        /\ beaks[i].bound
        /\ ~beaks[i].booted
        /\ beaks[i].consumer_thread = "ended"
        /\ beaks[i].server_thread = "ended"

\* The requests and replies with key k that are on their way: on the
\* inbound queue or on the outbound queue of an interface.
InFlight(k) ==
    Cardinality({n \in 1..Len(rx_q) : rx_q[n][2] = k})
    + Cardinality({in \in {<<i, n>> : i \in Interfaces, n \in 1..TX_Q_SIZE} :
                        in[2] <= Len(tx_q[in[1]]) /\ tx_q[in[1]][in[2]][1] = k})

\* The handler of connection k forwards a request.
Forwards(k) ==
    /\ Len(rx_q') = Len(rx_q) + 1
    /\ rx_q'[Len(rx_q')][2] = k

\* The reply at the head of an outbound queue is handed to the handler of
\* connection k, which writes it.
Writes(k) ==
    \E i \in Interfaces :
        /\ tx_q[i] # <<>>
        /\ tx_q'[i] = Tail(tx_q[i])
        /\ Head(tx_q[i])[1] = k
        /\ clients[k].interface = i

\* C33: a connection has at most one request in flight: its handler
\* forwards a request only when nothing with its key is on the way and it
\* waits for no reply, from then on it waits for the reply to that
\* request, and it stops waiting only by writing the reply it was handed
\* or by ending; the reply written is the one to the request it waits
\* for (the engine of this specification answers a request with its own
\* text), so the replies of a connection are written in the order of its
\* requests, one for each.
C33_OneInFlight ==
    [][ \A k \in Keys :
            /\ InFlight(k) <= 1
            /\ InFlight(k) = 1 =>
                    clients[k].request # None \/ clients[k].interface = "closed"
            /\ Forwards(k) =>
                    /\ InFlight(k) = 0
                    /\ clients[k].request = None
                    /\ clients[k].interface \in Interfaces
                    /\ clients'[k].request = rx_q'[Len(rx_q')][3]
                    /\ rx_q'[Len(rx_q')][1] = clients[k].interface
            /\ Writes(k) =>
                    /\ clients[k].request # None
                    /\ clients[k].request = Head(tx_q[clients[k].interface])[2]
                    /\ clients'[k].request = None
            /\ (clients[k].request # None /\ clients'[k].request # clients[k].request) =>
                    \/ Writes(k)
                    \/ /\ clients'[k].interface = "closed"
                       /\ beak_procs[clients[k].interface].stop
      ]_vars

\* Both connections wait for a reply: the reply to k1 is at the head of
\* the outbound queue of its interface and the request of k2 is still on
\* the inbound queue.
C33_Witness ==
    /\ clients["k1"].request # None
    /\ clients["k2"].request # None
    /\ \E i \in Interfaces :
            /\ clients["k1"].interface = i
            /\ tx_q[i] = << <<"k1", clients["k1"].request>> >>
    /\ Len(rx_q) = 1
    /\ rx_q[1][2] = "k2"

\* The pairs of values x and y have together: the initial values of the
\* configuration and the values one "set coordinates" request assigns.
CoordinatePairs ==
    { <<config.vars[VAR_X], config.vars[VAR_Y]>> }
        \cup {v \in CoordValues \X CoordValues : v[1] # v[2]}

\* C34: the values the respond stage has read for a response with x and
\* y are a pair the two variables had together: the initial values or the
\* two values of one "set coordinates" request.
C34_NoMixedValues ==
    (/\ respond_thread.pc = "put"
     /\ respond_thread.match_req.resp_vars = <<VAR_X, VAR_Y>>)
        => <<respond_thread.vals[1], respond_thread.vals[2]>> \in CoordinatePairs

\* The respond stage is about to send a response with the x of a "set
\* coordinates" request and the y from before it, while the match stage
\* is between the two assignments of that request.
C34_Witness ==
    /\ respond_thread.pc = "put"
    /\ respond_thread.match_req.resp_vars = <<VAR_X, VAR_Y>>
    /\ respond_thread.vals = << <<"1">>, <<"0">> >>
    /\ Len(handled) = 2
    /\ handled[2].request = SetCoordinatesRequest(<<"1">>, <<"2", "3">>)

\* The registration stage has processed every startup registration of
\* interface i: none is left on the registration queue, its requests are
\* registered and so is its default response.
StartupRegistered(i) ==
    /\ \A n \in 1..Len(rr_q) : rr_q[n][1] # i
    /\ Len(requests[i]) = Len(config.interfaces[i].requests)
    /\ i \in DOMAIN default_responses

\* C35: when the match stage takes a request of an interface from the
\* inbound queue, the registration stage has processed every startup
\* registration of that interface.
C35_RegisteredBeforeMatch ==
    [][ Len(handled') = Len(handled) + 1 => StartupRegistered(Head(rx_q)[1]) ]_vars

\* The match stage has handled the "units 5" of k1 while the startup
\* registrations of its interface were still on the registration queue:
\* no template and no default response was there for it.
C35_Witness ==
    /\ Len(handled) = 1
    /\ handled[1].request = UnitsRequest(<<"5">>)
    /\ ~handled[1].matched
    /\ Len(rr_q) = Len(Registrations(INTERFACE))
    /\ requests[INTERFACE] = <<>>
    /\ default_responses = <<>>

\* C37: the put of _request succeeds whatever the response queue holds:
\* the step that schedules the response of a matching request or of the
\* default response adds its entry to the queue and the match stage goes
\* on.
C37_ScheduleSucceeds ==
    [][ (request_thread.pc = "schedule" /\ request_thread.matching_request # NoRequest
            /\ request_thread'.pc # "schedule") =>
            /\ request_thread'.pc # "crashed"
            /\ Len(response_queue') = Len(response_queue) + 1
      ]_vars

\* The match stage ended in the put of the second of two requests with
\* one key: the first, "units 5", is scheduled and still on the response
\* queue, the second matched no request and has the default response, and
\* the clock did not move between the two.
C37_Witness ==
    /\ request_thread.pc = "crashed"
    /\ Len(handled) = 2
    /\ handled[1].key = handled[2].key
    /\ handled[1].request = UnitsRequest(<<"5">>)
    /\ handled[2].request = BLAH
    /\ INTERFACE \in DOMAIN default_responses
    /\ Len(response_queue) = 1
    /\ response_queue[1][1] = now
    /\ response_queue[1][3] = handled[2].key
====
